---- MODULE Spec2Model ----
(***************************************************************************)
(* A model of the rs-melsec MC-protocol client (3E/4E frames).             *)
(*                                                                         *)
(* Bytes are the integers 0..255 and a buffer is a sequence of bytes.      *)
(* Text that ends up in a buffer (hexadecimal digits, device classes) is   *)
(* carried as the ASCII codes of its characters.  A device token is a      *)
(* sequence of one-character strings.  Values of type i64 are drawn from   *)
(* the 32-bit range; the 64-bit writers of the native arm sign-extend it.  *)
(***************************************************************************)
EXTENDS Integers, Sequences, FiniteSets, TLC

VARIABLES
    plc_type,          \* Client.plc_type
    comm_type,         \* Client.comm_type
    wordsize,          \* Client._wordsize
    use_e4,            \* Client.use_e4 (E4 or E3 behind device_type)
    subheader_serial,  \* E4.subheader_serial
    endian,            \* Client.endian
    is_connected,      \* Client._is_connected
    sock,              \* Client._sock: "none" or "open"
    target_le,         \* byte order of the build target (NativeEndian)
    wire,              \* transport events of the last call, in order
    ret                \* the last call: its name, arguments and result

vars == <<plc_type, comm_type, wordsize, use_e4, subheader_serial, endian,
          is_connected, sock, target_le, wire, ret>>

client == <<plc_type, comm_type, wordsize, use_e4, subheader_serial, endian,
            is_connected, sock, target_le>>

-----------------------------------------------------------------------------
(* db.rs: consts *)

Q_SERIES == "Q"
L_SERIES == "L"
QNA_SERIES == "QnA"
IQL_SERIES == "iQ-L"
IQR_SERIES == "iQ-R"

COMMTYPE_BINARY == "binary"
COMMTYPE_ASCII == "ascii"

ENDIAN_NATIVE == "="
ENDIAN_LITTLE == "<"
ENDIAN_BIG == ">"
ENDIAN_NETWORK == "!"

(* db.rs: commands, subcommands *)
BATCH_READ == 1025      \* 0x0401
BATCH_WRITE == 5121     \* 0x1401
RANDOM_READ == 1027     \* 0x0403
RANDOM_WRITE == 5122    \* 0x1402

ZERO == 0
ONE == 1
TWO == 2
THREE == 3

(* db.rs: DataType *)
DataType == {"BIT", "SWORD", "UWORD", "SDWORD", "UDWORD", "FLOAT",
             "DOUBLE", "SLWORD", "ULWORD"}

size(mode) ==
    CASE mode \in {"BIT", "SWORD", "UWORD"} -> 2
      [] mode \in {"SDWORD", "UDWORD", "FLOAT"} -> 4
      [] mode \in {"DOUBLE", "SLWORD", "ULWORD"} -> 8

-----------------------------------------------------------------------------
(* Integer casts and the byteorder writers/readers. *)

Byte == 0..255

RECURSIVE Pow(_, _)
Pow(b, n) == IF n = 0 THEN 1 ELSE b * Pow(b, n - 1)

\* Byte k (0 = least significant) of the two's complement form of v, for a
\* v of the 32-bit range; bytes 4..7 of the 64-bit form are the sign.
ByteAt(v, k) ==
    IF k >= 4 THEN (IF v < 0 THEN 255 ELSE 0)
    ELSE (v \div Pow(256, k)) % 256

\* `v as uN` / `v as iN` followed by write_uN/write_iN::<LittleEndian>: both
\* casts keep the low n bytes, so the sign flag does not change the bytes.
LEBytes(v, n) == [k \in 1..n |-> ByteAt(v, k - 1)]

BEBytes(v, n) == [k \in 1..n |-> ByteAt(v, n - k)]

NEBytes(v, n) == IF target_le THEN LEBytes(v, n) ELSE BEBytes(v, n)

\* read_u16 / read_i16 of two bytes, low byte first
U16(lo, hi) == lo + 256 * hi

I16(lo, hi) == IF hi >= 128 THEN U16(lo, hi) - 65536 ELSE U16(lo, hi)

\* Result values: Ok(v), an Err(e) handed back to the caller, and a panic
\* (an unwrap of an error, an index or a slice out of range)
Ok(v) == [ok |-> TRUE, kind |-> "ok", val |-> v]

Err(e) == [ok |-> FALSE, kind |-> "err", val |-> e]

Panic == [ok |-> FALSE, kind |-> "panic", val |-> "panic"]

\* `r?` followed by F of the unwrapped value: an error or a panic of r ends
\* the function with it
Try(r, F(_)) == IF r.ok THEN F(r.val) ELSE r

\* let v = ...; F(v)
With(v, F(_)) == F(v)

-----------------------------------------------------------------------------
(* client.rs: the value codec *)

\* Client::encode_value: the arm is chosen by self.endian and mode.size()
encode_value(value, mode, is_signal) ==
    CASE endian = ENDIAN_LITTLE ->
           (CASE size(mode) = 2 -> Ok(<<ByteAt(value, 0)>>)
              [] size(mode) = 4 -> Ok(LEBytes(value, 2))
              [] size(mode) = 8 -> Ok(LEBytes(value, 4))
              [] OTHER -> Err("Unsupported data type size"))
      [] endian = ENDIAN_BIG ->
           (CASE size(mode) = 2 -> Ok(<<ByteAt(value, 0)>>)
              [] size(mode) = 4 -> Ok(BEBytes(value, 4))
              [] size(mode) = 8 -> Ok(BEBytes(value, 4))
              [] OTHER -> Err("Unsupported data type size"))
      [] endian = ENDIAN_NATIVE ->
           (CASE size(mode) = 2 -> Ok(<<ByteAt(value, 0)>>)
              [] size(mode) = 4 -> Ok(NEBytes(value, 8))
              [] size(mode) = 8 -> Ok(NEBytes(value, 8))
              [] OTHER -> Err("Unsupported data type size"))
      [] OTHER -> Err("Unsupported endianness")

\* the value of one hexadecimal digit given as its ASCII code, -1 if none
HexVal(c) ==
    CASE c \in 48..57 -> c - 48
      [] c \in 97..102 -> c - 87
      [] c \in 65..70 -> c - 55
      [] OTHER -> -1

\* hex::decode: two digits per byte; odd length or a non-digit is an error
hex_decode(bytes) ==
    IF Len(bytes) % 2 # 0 THEN Err("OddLength")
    ELSE IF \E i \in 1..Len(bytes) : HexVal(bytes[i]) = -1
         THEN Err("InvalidHexCharacter")
    ELSE Ok([k \in 1..(Len(bytes) \div 2) |->
                16 * HexVal(bytes[2 * k - 1]) + HexVal(bytes[2 * k])])

\* the cursor reads of decode_value on the (already hex-decoded) bytes
\* cursor.read_u8()
read_u8(bytes) ==
    IF Len(bytes) < 1 THEN Err("UnexpectedEof") ELSE Ok(bytes[1])

\* cursor.read_i16::<E>() / read_u16::<E>(); little: whether E is little-endian
read_16(bytes, little, is_signed) ==
    IF Len(bytes) < 2 THEN Err("UnexpectedEof")
    ELSE IF little
    THEN Ok(IF is_signed THEN I16(bytes[1], bytes[2]) ELSE U16(bytes[1], bytes[2]))
    ELSE Ok(IF is_signed THEN I16(bytes[2], bytes[1]) ELSE U16(bytes[2], bytes[1]))

\* the match of decode_value: the arm is chosen by self.endian and
\* mode.size()
read_value(bytes, mode, is_signed) ==
    CASE endian = ENDIAN_LITTLE ->
           (CASE size(mode) = 2 -> read_u8(bytes)
              [] size(mode) = 4 -> read_16(bytes, TRUE, is_signed)
              [] size(mode) = 8 -> read_16(bytes, TRUE, is_signed)
              [] OTHER -> Err("Unsupported data type size"))
      [] endian = ENDIAN_BIG ->
           (CASE size(mode) = 2 -> read_u8(bytes)
              [] size(mode) = 4 -> read_16(bytes, FALSE, is_signed)
              [] size(mode) = 8 -> read_16(bytes, FALSE, is_signed)
              [] OTHER -> Err("Unsupported data type size"))
      [] endian = ENDIAN_NATIVE ->
           (CASE size(mode) = 2 -> read_u8(bytes)
              [] size(mode) = 4 -> read_16(bytes, target_le, is_signed)
              [] size(mode) = 8 -> read_16(bytes, target_le, is_signed)
              [] OTHER -> Err("Unsupported data type size"))
      [] OTHER -> Err("Unsupported endianness")

\* Client::decode_value
decode_value(data, mode, is_signed) ==
    IF comm_type # COMMTYPE_BINARY
    THEN Try(hex_decode(data), LAMBDA bytes : read_value(bytes, mode, is_signed))
    ELSE read_value(data, mode, is_signed)

-----------------------------------------------------------------------------
(* device_info.rs: E3 / E4, and the routing fields Client::new sets *)

E3_subheader == 20480   \* 0x5000
E4_subheader == 21504   \* 0x5400

network == 0
pc == 255
dest_moduleio == 1023
dest_modulesta == 0
timer == 4

get_subheader == IF use_e4 THEN E4_subheader ELSE E3_subheader

get_subheader_serial == IF use_e4 THEN subheader_serial ELSE 0

get_response_data_index ==
    IF use_e4 THEN (IF comm_type = COMMTYPE_BINARY THEN 15 ELSE 30)
    ELSE (IF comm_type = COMMTYPE_BINARY THEN 11 ELSE 22)

get_response_status_index ==
    IF use_e4 THEN (IF comm_type = COMMTYPE_BINARY THEN 13 ELSE 26)
    ELSE (IF comm_type = COMMTYPE_BINARY THEN 9 ELSE 18)

-----------------------------------------------------------------------------
(* client.rs: the frame builder *)

RECURSIVE Flatten(_)
Flatten(ss) == IF ss = <<>> THEN <<>> ELSE Head(ss) \o Flatten(Tail(ss))

\* a run of `?`-propagated steps: the first error, or the bytes of all
Collect(rs) ==
    IF \E i \in 1..Len(rs) : ~rs[i].ok
    THEN rs[CHOOSE i \in 1..Len(rs) :
                ~rs[i].ok /\ \A j \in 1..(i - 1) : rs[j].ok]
    ELSE Ok(Flatten([i \in 1..Len(rs) |-> rs[i].val]))

\* the ASCII code of an upper-case / lower-case hexadecimal digit
UpperHexDigit(d) == IF d < 10 THEN 48 + d ELSE 55 + d

LowerHexDigit(d) == IF d < 10 THEN 48 + d ELSE 87 + d

\* format!("{:04X}", v) for a u16, as bytes
FormatX04(v) == [k \in 1..4 |-> UpperHexDigit((v \div Pow(16, 4 - k)) % 16)]

\* the subheader as build_send_data writes it (twice for E3)
subheader_bytes ==
    IF comm_type = COMMTYPE_BINARY
    THEN Ok(BEBytes(get_subheader, 2))
    ELSE Ok(FormatX04(get_subheader))

\* build_send_data with the second subheader in the 4E frame instead of
\* the 3E frame
build_send_data_e4_subheader(request_data) ==
    Collect(<<
        subheader_bytes,
        encode_value(get_subheader_serial, "SWORD", FALSE),
        encode_value(0, "SWORD", FALSE),
        IF use_e4 THEN subheader_bytes ELSE Ok(<<>>),
        encode_value(network, "BIT", FALSE),
        encode_value(pc, "BIT", FALSE),
        encode_value(dest_moduleio, "SWORD", FALSE),
        encode_value(dest_modulesta, "BIT", FALSE),
        encode_value(wordsize + Len(request_data), "SWORD", FALSE),
        encode_value(timer, "SWORD", FALSE),
        Ok(request_data) >>)

\* Client::build_send_data
build_send_data(request_data) ==
    Collect(<<
        subheader_bytes,
        encode_value(get_subheader_serial, "SWORD", FALSE),
        encode_value(0, "SWORD", FALSE),
        IF use_e4 THEN Ok(<<>>) ELSE subheader_bytes,
        encode_value(network, "BIT", FALSE),
        encode_value(pc, "BIT", FALSE),
        encode_value(dest_moduleio, "SWORD", FALSE),
        encode_value(dest_modulesta, "BIT", FALSE),
        encode_value(wordsize + Len(request_data), "SWORD", FALSE),
        encode_value(timer, "SWORD", FALSE),
        Ok(request_data) >>)

\* Client::build_command_data
build_command_data(command, subcommand) ==
    Collect(<<
        encode_value(command, "SWORD", FALSE),
        encode_value(subcommand, "SWORD", FALSE) >>)

-----------------------------------------------------------------------------
(* err.rs: MCError *)

LowerHexChars == <<"0", "1", "2", "3", "4", "5", "6", "7", "8", "9",
                   "a", "b", "c", "d", "e", "f">>

\* format!("0x{:04x}", error_code)
FormatCode(error_code) ==
    "0x" \o LowerHexChars[((error_code \div 4096) % 16) + 1]
         \o LowerHexChars[((error_code \div 256) % 16) + 1]
         \o LowerHexChars[((error_code \div 16) % 16) + 1]
         \o LowerHexChars[(error_code % 16) + 1]

\* MCError::new: the error holds the formatted code
MCError_new(error_code) == FormatCode(error_code)

\* the arms of MCError::description: <<patterns, text>>
Descriptions ==
    <<
      <<{"0x0050"},
        "0x0050: When \"Communication Data Code\" is set to ASCII Code, ASCII code data that cannot be converted to binary were received.">>,
      <<{"0x0051", "0x0052", "0x0053", "0x0054"},
        "0x0051-0x0054: The number of read or write points is outside the allowable range.">>,
      <<{"0x0055"},
        "0x0055: Although online change is disabled, the connected device requested the RUN-state CPU module for data writing.">>,
      <<{"0xC056"},
        "0xC056: The read or write request exceeds the maximum address.">>,
      <<{"0xC058"},
        "0xC058: The request data length after ASCII-to-binary conversion does not match the data size of the character area (a part of text data).">>,
      <<{"0xC059"},
        "0xC059: The command and/or subcommand are specified incorrectly. The CPU module does not support the command and/or subcommand.">>,
      <<{"0xC05B"},
        "0xC05B: The CPU module cannot read data from or write data to the specified device.">>,
      <<{"0xC05C"},
        "0xC05C: The request data is incorrect. (e.g. reading or writing data in units of bits from or to a word device)">>,
      <<{"0xC05D"},
        "0xC05D: No monitor registration.">>,
      <<{"0xC05F"},
        "0xC05F: The request cannot be executed to the CPU module.">>,
      <<{"0xC060"},
        "0xC060: The request data is incorrect. (ex. incorrect specification of data for bit devices)">>,
      <<{"0xC061"},
        "0xC061: The request data length does not match the number of data in the character area (a part of text data).">>,
      <<{"0xC06F"},
        "0xC06F: The CPU module received a request message in ASCII format when \"Communication Data Code is set to Binary Code, or received it in binary format when the setting is set to ASCII Code. (This error code is only registered to the error history, and no abnormal response is returned.)">>,
      <<{"0xC070"},
        "0xC070: The device memory extension cannot be specified for the target station.">>,
      <<{"0xC0B5"},
        "0xC0B5: The CPU module cannot handle the data specified.">>,
      <<{"0xC200"},
        "0xC200: The remote password is incorrect.">>,
      <<{"0xC201"},
        "0xC201: The port used for communication is locked with the remote password. Or, because of the remote password lock status with \"Communication Data Code\" set to ASCII Code, the subcommand and later part cannot be converted to a binary code.">>,
      <<{"0xC204"},
        "0xC204: The connected device is different from the one that requested for unlock processing of the remote password.">>
    >>

\* MCError::description
description(error_code) ==
    IF \E i \in 1..Len(Descriptions) : error_code \in Descriptions[i][1]
    THEN Descriptions[CHOOSE i \in 1..Len(Descriptions) :
                          error_code \in Descriptions[i][1]][2]
    ELSE error_code \o ": Unknown error code."

\* a protocol error handed back to the caller
McErr(status) == [ok |-> FALSE, kind |-> "mc", val |-> MCError_new(status)]

\* Client::check_mc_error
check_mc_error(status) == IF status = 0 THEN Ok(<<>>) ELSE McErr(status)

-----------------------------------------------------------------------------
(* client.rs: the response parser *)

\* &recv_data[from..to] with 0-based bounds, as Rust slices: the elements
\* from+1..to; the caller checks to <= len first (a panic otherwise)
Slice(data, from, to) == SubSeq(data, from + 1, to)

\* .unwrap(): the value, or a panic on an error
unwrap(r) == IF r.ok THEN r ELSE Panic

\* Client::check_command_response
check_command_response(recv_data) ==
    IF Len(recv_data) < get_response_status_index + wordsize THEN Panic
    ELSE Try(unwrap(decode_value(Slice(recv_data, get_response_status_index,
                                       get_response_status_index + wordsize),
                                 "SWORD", FALSE)),
             LAMBDA response_status : check_mc_error(response_status % 65536))

-----------------------------------------------------------------------------
(* Text: characters, decimal digits, str::as_bytes *)

Digits == <<"0", "1", "2", "3", "4", "5", "6", "7", "8", "9">>

Upper == <<"A", "B", "C", "D", "E", "F", "G", "H", "I", "J", "K", "L", "M",
           "N", "O", "P", "Q", "R", "S", "T", "U", "V", "W", "X", "Y", "Z">>

Lower == <<"a", "b", "c", "d", "e", "f", "g", "h", "i", "j", "k", "l", "m",
           "n", "o", "p", "q", "r", "s", "t", "u", "v", "w", "x", "y", "z">>

IndexIn(c, cs) == CHOOSE i \in 1..Len(cs) : cs[i] = c

IsIn(c, cs) == \E i \in 1..Len(cs) : cs[i] = c

IsDigit(c) == IsIn(c, Digits)

DigitVal(c) == IndexIn(c, Digits) - 1

\* the ASCII code of a character
Ord(c) ==
    CASE IsIn(c, Digits) -> 47 + IndexIn(c, Digits)
      [] IsIn(c, Upper) -> 64 + IndexIn(c, Upper)
      [] IsIn(c, Lower) -> 96 + IndexIn(c, Lower)
      [] c = "*" -> 42
      [] c = "-" -> 45
      [] c = " " -> 32
      [] c = "\n" -> 10

as_bytes(cs) == [i \in 1..Len(cs) |-> Ord(cs[i])]

\* a sequence of characters as one string
RECURSIVE Str(_)
Str(cs) == IF cs = <<>> THEN "" ELSE Head(cs) \o Str(Tail(cs))

\* i32::to_string of a non-negative number
RECURSIVE to_string(_)
to_string(n) ==
    IF n < 10 THEN <<Digits[n + 1]>>
    ELSE to_string(n \div 10) \o <<Digits[(n % 10) + 1]>>

I32_MAX == 2147483647

\* i32::from_str_radix of a run of decimal digit characters: the number the
\* digits spell in `radix`, or an error when it does not fit an i32
RECURSIVE from_str_radix(_, _)
from_str_radix(ds, radix) ==
    IF ds = <<>> THEN Err("Empty")
    ELSE IF \E i \in 1..Len(ds) : ~IsDigit(ds[i]) THEN Err("InvalidDigit")
    ELSE IF Len(ds) = 1 THEN Ok(DigitVal(ds[1]))
    ELSE Try(from_str_radix(SubSeq(ds, 1, Len(ds) - 1), radix),
             LAMBDA front :
                 IF front > (I32_MAX - DigitVal(ds[Len(ds)])) \div radix
                 THEN Err("PosOverflow")
                 ELSE Ok(front * radix + DigitVal(ds[Len(ds)])))

-----------------------------------------------------------------------------
(* client.rs: device tokens *)

\* the first index at or after i whose character is (not) a digit, else 0
FirstAt(device, i, digit) ==
    IF \E j \in i..Len(device) : IsDigit(device[j]) = digit
    THEN CHOOSE j \in i..Len(device) :
             /\ IsDigit(device[j]) = digit
             /\ \A k \in i..(j - 1) : IsDigit(device[k]) # digit
    ELSE 0

\* the last index of a match that runs up to `stop`, or to the end of the
\* token when nothing stops it (stop = 0)
MatchTo(device, stop) == IF stop = 0 THEN Len(device) ELSE stop - 1

\* get_device_type: the first match of \D+, the leftmost maximal run of
\* non-digits wherever it starts
get_device_type(device) ==
    With(FirstAt(device, 1, FALSE), LAMBDA from :
        IF from = 0 THEN Err("Invalid device type")
        ELSE Ok(SubSeq(device, from,
                       MatchTo(device, FirstAt(device, from, TRUE)))))

\* Err(_) => Err(..): the same value, or the error replaced
map_err(r, e) == IF r.ok THEN r ELSE Err(e)

\* the first index at or after i whose character is a line feed, else 0
FirstLineFeedAt(device, i) ==
    IF \E j \in i..Len(device) : device[j] = "\n"
    THEN CHOOSE j \in i..Len(device) :
             /\ device[j] = "\n"
             /\ \A k \in i..(j - 1) : device[k] # "\n"
    ELSE 0

\* get_device_index: the first match of \d.* (from the first digit to the
\* end of its line: `.` matches every character but the line feed), parsed
\* as an i32
get_device_index(device) ==
    With(FirstAt(device, 1, TRUE), LAMBDA from :
        IF from = 0 THEN Err("Invalid device index")
        ELSE map_err(from_str_radix(
                         SubSeq(device, from,
                                MatchTo(device,
                                        FirstLineFeedAt(device, from))), 10),
                     "Failed to parse device index"))

\* format!("{}{}", device_type, device_index)
format_device(device_type, device_index) ==
    device_type \o to_string(device_index)

-----------------------------------------------------------------------------
(* db.rs: DeviceConstants *)

\* the arms of get_binary_device_code without a guard: name -> <<code, base>>
BinaryCodes ==
    [SM |-> <<145, 10>>, SD |-> <<169, 10>>, X |-> <<156, 16>>,
     Y |-> <<157, 16>>, M |-> <<144, 10>>, L |-> <<146, 10>>,
     F |-> <<147, 10>>, V |-> <<148, 10>>, B |-> <<160, 16>>,
     D |-> <<168, 10>>, W |-> <<180, 16>>, TS |-> <<193, 10>>,
     TC |-> <<192, 10>>, TN |-> <<194, 10>>, SS |-> <<199, 10>>,
     SC |-> <<198, 10>>, SN |-> <<200, 10>>, CS |-> <<196, 10>>,
     CC |-> <<195, 10>>, CN |-> <<197, 10>>, SB |-> <<161, 16>>,
     SW |-> <<181, 16>>, DX |-> <<162, 16>>, DY |-> <<163, 16>>,
     R |-> <<175, 10>>, ZR |-> <<176, 16>>]

\* the arms guarded by `if plc_type == "iQR_SERIES"`
BinaryCodesIQR ==
    [LTS |-> <<81, 10>>, LTC |-> <<80, 10>>, LTN |-> <<82, 10>>,
     LSTS |-> <<89, 10>>, LSTC |-> <<88, 10>>, LSTN |-> <<90, 10>>,
     LCS |-> <<85, 10>>, LCC |-> <<84, 10>>, LCN |-> <<86, 10>>,
     LZ |-> <<98, 10>>, RD |-> <<44, 10>>]

\* DeviceConstants::get_binary_device_code
get_binary_device_code(plc, device_name) ==
    CASE device_name \in DOMAIN BinaryCodes -> Ok(BinaryCodes[device_name])
      [] device_name \in DOMAIN BinaryCodesIQR /\ plc = "iQR_SERIES" ->
           Ok(BinaryCodesIQR[device_name])
      [] OTHER -> Err("failed to get binary device code")

\* format!("{:*<width$}", name, width = padding), as characters
pad_name(name, padding) ==
    name \o [i \in 1..(padding - Len(name)) |-> "*"]

AsciiBase16 ==
    {"SM", "SD", "X", "Y", "M", "L", "F", "V", "B", "D", "W", "TS", "TC",
     "TN", "CS", "CC", "CN", "SB", "SW", "DX", "DY", "R", "ZR"}

AsciiIQR ==
    {"LTS", "LTC", "LTN", "LSTS", "LSTN", "LCS", "LCC", "LCN", "LZ", "RD"}

\* the match of get_ascii_device_code
ascii_device_code(plc, device_name, padding, padded_name) ==
    CASE device_name \in AsciiBase16 -> Ok(<<padded_name, 16>>)
      [] device_name = "STS" /\ plc = IQR_SERIES ->
           Ok(<<pad_name(<<"S", "T", "S">>, padding), 10>>)
      [] device_name = "STS" -> Ok(<<pad_name(<<"S", "S">>, padding), 10>>)
      [] device_name = "STC" /\ plc = IQR_SERIES ->
           Ok(<<pad_name(<<"S", "T", "C">>, padding), 10>>)
      [] device_name = "STC" -> Ok(<<pad_name(<<"S", "C">>, padding), 10>>)
      [] device_name = "STN" /\ plc = IQR_SERIES ->
           Ok(<<pad_name(<<"S", "T", "N">>, padding), 10>>)
      [] device_name = "STN" -> Ok(<<pad_name(<<"S", "N">>, padding), 10>>)
      [] device_name \in AsciiIQR /\ plc = "iQR_SERIES" ->
           Ok(<<padded_name, 10>>)
      [] OTHER -> Err("failed to get ascii device code")

\* DeviceConstants::get_ascii_device_code; the name is a character sequence
get_ascii_device_code(plc, device_chars) ==
    With(IF plc = IQR_SERIES THEN 4 ELSE 2, LAMBDA padding :
        ascii_device_code(plc, Str(device_chars), padding,
                          pad_name(device_chars, padding)))

-----------------------------------------------------------------------------
(* client.rs: Client::build_device_data *)

\* format!("{:06x}", n) for a non-negative i32, as bytes
RECURSIVE LowerHex(_)
LowerHex(n) ==
    IF n < 16 THEN <<LowerHexDigit(n)>>
    ELSE LowerHex(n \div 16) \o <<LowerHexDigit(n % 16)>>

Format06x(n) ==
    With(LowerHex(n), LAMBDA h : [i \in 1..(6 - Len(h)) |-> 48] \o h)

\* LittleEndian::write_u32 / BigEndian::write_u32 into the head of a buffer
write_u32(n) == IF endian = ENDIAN_LITTLE THEN LEBytes(n, 4) ELSE BEBytes(n, 4)

\* the device number taken to be the index itself, whatever the base
device_number_as_index(device, device_base) == get_device_index(device)

\* the device number: the decimal text of the index re-read in the base
device_number(device, device_base) ==
    Try(get_device_index(device), LAMBDA device_index :
        from_str_radix(to_string(device_index), device_base))

\* Client::build_device_data
build_device_data(device) ==
    Try(get_device_type(device), LAMBDA device_type :
        IF comm_type = COMMTYPE_BINARY
        THEN Try(get_binary_device_code(plc_type, Str(device_type)),
                 LAMBDA code :
             Try(device_number(device, code[2]), LAMBDA number :
                 IF plc_type = IQR_SERIES
                 THEN Ok(write_u32(number) \o <<0, 0>>)
                 ELSE Ok(SubSeq(write_u32(number), 1, 3) \o <<code[1]>>)))
        ELSE Try(get_ascii_device_code(plc_type, device_type), LAMBDA code :
             Try(device_number(device, code[2]), LAMBDA number :
                 Ok(as_bytes(code[1]) \o Format06x(number)))))

-----------------------------------------------------------------------------
(* Text held in tags: a String is carried as its UTF-8 bytes *)

\* i64::to_string, as bytes
int_to_bytes(n) ==
    IF n < 0 THEN <<45>> \o as_bytes(to_string(0 - n)) ELSE as_bytes(to_string(n))

RECURSIVE parse_digits(_)
parse_digits(bs) ==
    IF Len(bs) = 1 THEN bs[1] - 48
    ELSE 10 * parse_digits(SubSeq(bs, 1, Len(bs) - 1)) + (bs[Len(bs)] - 48)

\* the digits of str::parse::<i64> after the optional sign
parse_unsigned(ds, negative) ==
    IF ds = <<>> \/ \E i \in 1..Len(ds) : ds[i] \notin 48..57
    THEN Err("ParseIntError")
    ELSE IF negative THEN Ok(0 - parse_digits(ds))
    ELSE Ok(parse_digits(ds))

\* str::parse::<i64>: an optional sign and at least one decimal digit
parse_i64(bs) ==
    IF bs # <<>> /\ bs[1] \in {43, 45}
    THEN parse_unsigned(Tail(bs), bs[1] = 45)
    ELSE parse_unsigned(bs, FALSE)

WhiteSpace == {9, 10, 11, 12, 13, 32}

\* the position of the first whitespace of bs, or one past its end
FirstWhite(bs) ==
    IF \E i \in 1..Len(bs) : bs[i] \in WhiteSpace
    THEN CHOOSE i \in 1..Len(bs) :
             /\ bs[i] \in WhiteSpace
             /\ \A j \in 1..(i - 1) : bs[j] \notin WhiteSpace
    ELSE Len(bs) + 1

\* str::split_whitespace: the maximal runs of non-whitespace, in order
RECURSIVE split_whitespace(_)
split_whitespace(bs) ==
    IF bs = <<>> THEN <<>>
    ELSE IF bs[1] \in WhiteSpace THEN split_whitespace(Tail(bs))
    ELSE <<SubSeq(bs, 1, FirstWhite(bs) - 1)>>
           \o split_whitespace(SubSeq(bs, FirstWhite(bs), Len(bs)))

\* Result::ok() as the elements filter_map keeps
ok_values(r) == IF r.ok THEN <<r.val>> ELSE <<>>

\* .filter_map(|part| part.parse::<i64>().ok()).collect()
RECURSIVE parsed_parts(_)
parsed_parts(parts) ==
    IF parts = <<>> THEN <<>>
    ELSE ok_values(parse_i64(Head(parts))) \o parsed_parts(Tail(parts))

Continuation(b) == b \in 128..191

\* String::from_utf8: whether the bytes are well-formed UTF-8
RECURSIVE Utf8Valid(_)
Utf8Valid(bs) ==
    IF bs = <<>> THEN TRUE
    ELSE CASE bs[1] < 128 -> Utf8Valid(Tail(bs))
           [] bs[1] \in 194..223 ->
                /\ Len(bs) >= 2
                /\ Continuation(bs[2])
                /\ Utf8Valid(SubSeq(bs, 3, Len(bs)))
           [] bs[1] \in 224..239 ->
                /\ Len(bs) >= 3
                /\ bs[2] \in (IF bs[1] = 224 THEN 160..191
                              ELSE IF bs[1] = 237 THEN 128..159 ELSE 128..191)
                /\ Continuation(bs[3])
                /\ Utf8Valid(SubSeq(bs, 4, Len(bs)))
           [] bs[1] \in 240..244 ->
                /\ Len(bs) >= 4
                /\ bs[2] \in (IF bs[1] = 240 THEN 144..191
                              ELSE IF bs[1] = 244 THEN 128..143 ELSE 128..191)
                /\ Continuation(bs[3])
                /\ Continuation(bs[4])
                /\ Utf8Valid(SubSeq(bs, 5, Len(bs)))
           [] OTHER -> FALSE

from_utf8(bs) == IF Utf8Valid(bs) THEN Ok(bs) ELSE Err("FromUtf8Error")

\* Option<String>
Some(s) == [some |-> TRUE, s |-> s]

None == [some |-> FALSE, s |-> <<>>]

\* Tag as the client builds it
Tag(device, value, data_type) ==
    [device |-> device, value |-> value, data_type |-> data_type]

-----------------------------------------------------------------------------
(* client.rs: the transport.  `net` is what the peer and the network do to *)
(* one exchange: whether write_all succeeds, and what read returns.  An    *)
(* operation that does I/O yields its result together with the transport   *)
(* events it caused, in order.                                             *)

SendEv(data, ok) == [dir |-> "send", data |-> data, ok |-> ok]

RecvEv(data, ok) == [dir |-> "recv", data |-> data, ok |-> ok]

IO(res, events) == [res |-> res, wire |-> events]

NoIO(res) == IO(res, <<>>)

\* `?` on a step without I/O, inside an operation that does I/O
TryIO(r, F(_)) == IF r.ok THEN F(r.val) ELSE NoIO(r)

\* the events of a step, then those of what follows it
Prepend(events, y) == IO(y.res, events \o y.wire)

\* `?` on a step with I/O
After(x, F(_)) == IF x.res.ok THEN Prepend(x.wire, F(x.res.val)) ELSE x

\* send without the test of the connection-state flag
send_unchecked(send_data, net) ==
    IF sock = "none" THEN NoIO(Panic)
    ELSE IF net.send_ok
    THEN IO(Ok(<<>>), <<SendEv(send_data, TRUE)>>)
    ELSE IO(Err("io"), <<SendEv(send_data, FALSE)>>)

\* Client::send
send(send_data, net) ==
    IF is_connected
    THEN IF sock = "none" THEN NoIO(Panic)
         ELSE IF net.send_ok
         THEN IO(Ok(<<>>), <<SendEv(send_data, TRUE)>>)
         ELSE IO(Err("io"), <<SendEv(send_data, FALSE)>>)
    ELSE NoIO(Err("Socket is not connected. Please use the connect method."))

\* Client::recv
recv(net) ==
    IF sock = "none" THEN NoIO(Panic)
    ELSE IF net.recv.ok
    THEN IO(net.recv, <<RecvEv(net.recv.val, TRUE)>>)
    ELSE IO(Err("io"), <<RecvEv(<<>>, FALSE)>>)

\* exchange with the request sent and answered a second time
exchange_twice(send_data, net) ==
    After(send(send_data, net), LAMBDA sent :
    After(recv(net), LAMBDA first :
    After(send(send_data, net), LAMBDA resent :
    After(recv(net), LAMBDA recv_data :
        NoIO(Try(check_command_response(recv_data),
                 LAMBDA checked : Ok(recv_data)))))))

\* self.send(&send_data)?; let recv_data = self.recv()?;
\* self.check_command_response(&recv_data)?;  -- Ok carries recv_data
exchange(send_data, net) ==
    After(send(send_data, net), LAMBDA sent :
    After(recv(net), LAMBDA recv_data :
        NoIO(Try(check_command_response(recv_data),
                 LAMBDA checked : Ok(recv_data)))))

-----------------------------------------------------------------------------
(* client.rs: batch access *)

\* the subcommand of a batch request
batch_subcommand(data_type) ==
    IF data_type = "BIT"
    THEN (IF plc_type = IQR_SERIES THEN THREE ELSE ONE)
    ELSE (IF plc_type = IQR_SERIES THEN TWO ELSE ZERO)

\* request_data of batch_read
batch_read_request(ref_device, read_size, data_type) ==
    Collect(<<
        build_command_data(BATCH_READ, batch_subcommand(data_type)),
        build_device_data(ref_device),
        encode_value((read_size * size(data_type)) \div 2, "SWORD", FALSE) >>)

\* data_index of the binary BIT loop after the step `data_index = index / 2
\* + data_index` of iteration `index`
RECURSIVE bit_data_index(_, _)
bit_data_index(start, index) ==
    IF index = 0 THEN start
    ELSE index \div 2 + bit_data_index(start, index - 1)

\* recv_data[data_index], 0-based: the byte, or a panic past the end
byte_at(recv_data, data_index, F(_)) ==
    IF data_index >= Len(recv_data) THEN Panic
    ELSE F(recv_data[data_index + 1])

\* &recv_data[from..to]: the bytes, or a panic past the end
slice_at(recv_data, from, to, F(_)) ==
    IF to > Len(recv_data) THEN Panic ELSE F(Slice(recv_data, from, to))

\* (value & (1 << 4)) != 0 for an even index, (value & (1 << 0)) != 0 for
\* an odd one
decoded_bit(value, index) ==
    IF index % 2 = 0 THEN (value \div 16) % 2 ELSE value % 2

\* result.push(Tag { .. }) with a number as the value
number_tag(device, value, data_type) ==
    Ok(<<Tag(device, Some(int_to_bytes(value)), data_type)>>)

\* the value of a word element of batch_read
word_value(raw, data_type, decode) ==
    IF decode
    THEN Try(decode_value(raw, data_type, FALSE),
             LAMBDA decoded : Ok(int_to_bytes(decoded)))
    ELSE from_utf8(raw)

\* one iteration of the loops of batch_read: <<tag>>, an error or a panic
batch_read_element(recv_data, device, data_type, decode, index) ==
    IF data_type = "BIT"
    THEN IF comm_type = COMMTYPE_BINARY
         THEN byte_at(recv_data,
                      bit_data_index(get_response_data_index, index),
                      LAMBDA value :
                          number_tag(device,
                                     IF decode THEN decoded_bit(value, index)
                                     ELSE value,
                                     data_type))
         ELSE byte_at(recv_data, get_response_data_index + index,
                      LAMBDA value : number_tag(device, value, data_type))
    ELSE slice_at(recv_data,
                  get_response_data_index + index * size(data_type),
                  get_response_data_index + (index + 1) * size(data_type),
                  LAMBDA raw :
                      Try(word_value(raw, data_type, decode),
                          LAMBDA value :
                              Ok(<<Tag(device, Some(value), data_type)>>)))

\* Client::batch_read
batch_read(ref_device, read_size, data_type, decode, net) ==
    TryIO(get_device_type(ref_device), LAMBDA device_type :
    TryIO(get_device_index(ref_device), LAMBDA device_index :
    TryIO(batch_read_request(ref_device, read_size, data_type),
          LAMBDA request_data :
    TryIO(build_send_data(request_data), LAMBDA send_data :
    After(exchange(send_data, net), LAMBDA recv_data :
        NoIO(Collect([k \in 1..read_size |->
            batch_read_element(recv_data,
                format_device(device_type, device_index + (k - 1)),
                data_type, decode, k - 1)])))))))

\* the two-per-byte packing of BIT values in a binary batch write
bit_data(values) ==
    [k \in 1..((Len(values) + 1) \div 2) |->
        (IF values[2 * k - 1] # 0 THEN 16 ELSE 0)
        + (IF 2 * k <= Len(values) /\ values[2 * k] # 0 THEN 1 ELSE 0)]

\* the values as batch_write appends them to the request
batch_write_values(values, data_type) ==
    IF data_type = "BIT"
    THEN IF comm_type = COMMTYPE_BINARY THEN Ok(bit_data(values))
         ELSE Ok(Flatten([i \in 1..Len(values) |-> int_to_bytes(values[i])]))
    ELSE Collect([i \in 1..Len(values) |->
                     encode_value(values[i], data_type, FALSE)])

\* request_data of batch_write
batch_write_request(ref_device, values, data_type) ==
    Collect(<<
        build_command_data(BATCH_WRITE, batch_subcommand(data_type)),
        build_device_data(ref_device),
        encode_value((Len(values) * size(data_type)) \div 2, "SWORD", FALSE),
        batch_write_values(values, data_type) >>)

\* Client::batch_write
batch_write(ref_device, values, data_type, net) ==
    TryIO(batch_write_request(ref_device, values, data_type),
          LAMBDA request_data :
    TryIO(build_send_data(request_data), LAMBDA send_data :
    After(exchange(send_data, net), LAMBDA recv_data : NoIO(Ok(<<>>)))))

-----------------------------------------------------------------------------
(* client.rs: random access *)

random_subcommand == IF plc_type = IQR_SERIES THEN TWO ELSE ZERO

RECURSIVE words_count(_)
words_count(devices) ==
    IF devices = <<>> THEN 0
    ELSE size(Head(devices).data_type) \div 2 + words_count(Tail(devices))

\* the start of request_data of read and of write
random_request_head(command, devices) ==
    Collect(<<build_command_data(command, random_subcommand),
              encode_value(words_count(devices), "BIT", FALSE),
              encode_value(0, "BIT", FALSE)>>)

\* read_entries with every word of a tag addressed at the tag's own index
read_entries_same_index(element) ==
    IF size(element.data_type) \div 2 > 1
    THEN Try(get_device_type(element.device), LAMBDA device_type :
         Try(get_device_index(element.device), LAMBDA device_index :
             Collect([k \in 1..(size(element.data_type) \div 2) |->
                 build_device_data(format_device(device_type,
                                                 device_index))])))
    ELSE build_device_data(element.device)

\* the device entries one query tag adds to the request of read
read_entries(element) ==
    IF size(element.data_type) \div 2 > 1
    THEN Try(get_device_type(element.device), LAMBDA device_type :
         Try(get_device_index(element.device), LAMBDA device_index :
             Collect([k \in 1..(size(element.data_type) \div 2) |->
                 build_device_data(format_device(device_type,
                                                 device_index + (k - 1)))])))
    ELSE build_device_data(element.device)

\* request_data of read
read_request(devices) ==
    Collect(<<random_request_head(RANDOM_READ, devices)>>
            \o [i \in 1..Len(devices) |-> read_entries(devices[i])])

\* data_index of read when it reaches element i (1-based)
RECURSIVE read_offset(_, _)
read_offset(devices, i) ==
    IF i = 1 THEN get_response_data_index
    ELSE read_offset(devices, i - 1) + size(devices[i - 1].data_type)

\* one iteration of the output loop of read
read_element(recv_data, devices, i) ==
    slice_at(recv_data, read_offset(devices, i),
             read_offset(devices, i) + size(devices[i].data_type),
             LAMBDA raw :
                 Try(decode_value(raw, "BIT", FALSE), LAMBDA value :
                     number_tag(devices[i].device, value,
                                devices[i].data_type)))

\* Client::read
read(devices, net) ==
    TryIO(read_request(devices), LAMBDA request_data :
        IF words_count(devices) < 1 THEN NoIO(Ok(<<>>))
        ELSE TryIO(build_send_data(request_data), LAMBDA send_data :
             After(exchange(send_data, net), LAMBDA recv_data :
                 NoIO(Collect([i \in 1..Len(devices) |->
                                  read_element(recv_data, devices, i)])))))

\* Option::unwrap
unwrap_some(value) == IF value.some THEN Ok(value.s) ELSE Panic

\* element.value.unwrap().parse::<i64>().unwrap()
unwrap_parse(value) ==
    Try(unwrap_some(value), LAMBDA s : unwrap(parse_i64(s)))

\* element.value after the UWORD/UDWORD step of write
normalized(element) ==
    IF element.data_type \in {"UWORD", "UDWORD"}
    THEN Try(unwrap_parse(element.value), LAMBDA parsed :
             IF parsed < 0 THEN Ok(Some(<<45>> \o element.value.s))
             ELSE Ok(element.value))
    ELSE Ok(element.value)

\* &temp_tag_value[data_index..data_index + wordsize] of iteration k
value_chunk(temp_tag_value, k) ==
    slice_at(temp_tag_value, k * wordsize, (k + 1) * wordsize,
             LAMBDA chunk : Ok(chunk))

\* what a tag of more than one word adds to the request of write: for each
\* word a device entry and a chunk of the encoded value
multi_word_entries(element, value) ==
    Try(get_device_type(element.device), LAMBDA device_type :
    Try(get_device_index(element.device), LAMBDA device_index :
    Try(unwrap_parse(value), LAMBDA parsed :
    Try(encode_value(parsed, element.data_type, FALSE),
        LAMBDA temp_tag_value :
            Collect([k \in 1..(2 * (size(element.data_type) \div 2)) |->
                IF k % 2 = 1
                THEN build_device_data(format_device(device_type,
                         device_index + (k - 1) \div 2))
                ELSE value_chunk(temp_tag_value, (k - 2) \div 2)])))))

\* what a tag of one word adds to the request of write
one_word_entries(element, value) ==
    Try(build_device_data(element.device), LAMBDA device_data :
    Try(unwrap_parse(value), LAMBDA parsed :
    Try(encode_value(parsed, element.data_type, FALSE), LAMBDA encoded :
        Ok(device_data \o encoded))))

\* the bytes one non-BIT tag adds to the request of write
write_entries(element) ==
    Try(normalized(element), LAMBDA value :
        IF size(element.data_type) \div 2 > 1
        THEN multi_word_entries(element, value)
        ELSE one_word_entries(element, value))

\* what the loop of write hands on: the request so far and the exchanges
\* the peer has still to answer
Built(request_data, nets) == [request_data |-> request_data, nets |-> nets]

\* the loop of write with the device address of every BIT tag added to
\* request_data as well
RECURSIVE write_loop_bit_in_payload(_, _, _, _)
write_loop_bit_in_payload(devices, i, request_data, nets) ==
    IF i > Len(devices) THEN NoIO(Ok(Built(request_data, nets)))
    ELSE IF devices[i].data_type = "BIT"
    THEN IF devices[i].value.some
         THEN After(batch_write(devices[i].device,
                        parsed_parts(split_whitespace(devices[i].value.s)),
                        devices[i].data_type, Head(nets)),
                    LAMBDA done :
                        TryIO(build_device_data(devices[i].device),
                              LAMBDA entry :
                                  write_loop_bit_in_payload(devices, i + 1,
                                      request_data \o entry, Tail(nets))))
         ELSE write_loop_bit_in_payload(devices, i + 1, request_data, nets)
    ELSE TryIO(write_entries(devices[i]), LAMBDA entries :
             write_loop_bit_in_payload(devices, i + 1,
                                       request_data \o entries, nets))

\* the loop of write over devices[i..]: each BIT tag with a value is one
\* batch_write, answered by the next of `nets`; every other tag adds its
\* entries to request_data
RECURSIVE write_loop(_, _, _, _)
write_loop(devices, i, request_data, nets) ==
    IF i > Len(devices) THEN NoIO(Ok(Built(request_data, nets)))
    ELSE IF devices[i].data_type = "BIT"
    THEN IF devices[i].value.some
         THEN After(batch_write(devices[i].device,
                        parsed_parts(split_whitespace(devices[i].value.s)),
                        devices[i].data_type, Head(nets)),
                    LAMBDA done :
                        write_loop(devices, i + 1, request_data, Tail(nets)))
         ELSE write_loop(devices, i + 1, request_data, nets)
    ELSE TryIO(write_entries(devices[i]), LAMBDA entries :
             write_loop(devices, i + 1, request_data \o entries, nets))

\* Client::write
write(devices, nets) ==
    TryIO(random_request_head(RANDOM_WRITE, devices), LAMBDA head :
    After(write_loop(devices, 1, head, nets), LAMBDA built :
    TryIO(build_send_data(built.request_data), LAMBDA send_data :
    After(exchange(send_data, Head(built.nets)),
          LAMBDA recv_data : NoIO(Ok(<<>>))))))

-----------------------------------------------------------------------------
(* The session: a caller that constructs one Client and calls its methods  *)
(* one at a time.  `ret` holds the call that has just returned until the   *)
(* caller takes its result.                                                *)

Idle == [op |-> "idle", args |-> <<>>, res |-> Ok(<<>>)]

Returned(op, args, res) == [op |-> op, args |-> args, res |-> res]

\* a call that did I/O returns: its result, and the events it caused
Step(op, args, r) ==
    /\ ret' = Returned(op, args, r.res)
    /\ wire' = r.wire

\* the series a session is constructed with
SessionPlcTypes == {Q_SERIES, IQR_SERIES, "InvalidType"}

MaxRead == 4

D100 == <<"D", "1", "0", "0">>
M8304 == <<"M", "8", "3", "0", "4">>
X10 == <<"X", "1", "0">>
BadToken == <<"b", "a", "d">>

Serials == {0, 256, 1234}

\* replies of the peer: anything up to the status field, a status field
\* of one word, data
GoodStatus ==
    IF comm_type = COMMTYPE_BINARY THEN <<0, 0>>
    ELSE as_bytes(<<"0", "0", "0", "0">>)

BadStatus ==
    IF comm_type = COMMTYPE_BINARY THEN <<89, 192>>
    ELSE as_bytes(<<"C", "0", "5", "9">>)

StatusFields ==
    {GoodStatus, BadStatus}
    \cup (IF comm_type = COMMTYPE_BINARY THEN {<<0, 192>>, <<80, 0>>}
          ELSE {as_bytes(<<"0", "0", "5", "5">>),
                as_bytes(<<"z", "z", "0", "0">>)})

DataFields ==
    {<<>>, <<16, 1, 0>>, <<52, 18, 1, 0, 255, 255, 0, 1>>,
     as_bytes(<<"1", "0", "1", "0", "F", "F", "0", "1">>)}

Filler(n) == [i \in 1..n |-> 0]

Reply(status, data) == Filler(get_response_status_index) \o status \o data

Replies ==
    {Reply(st, d) : st \in StatusFields, d \in DataFields}
    \cup {<<>>, Filler(get_response_status_index + 1)}

SendFails == [send_ok |-> FALSE, recv |-> Err("io")]

RecvFails == [send_ok |-> TRUE, recv |-> Err("io")]

Answers(r) == [send_ok |-> TRUE, recv |-> Ok(r)]

Nets == {SendFails, RecvFails} \cup {Answers(r) : r \in Replies}

\* Client::new
Init ==
    /\ plc_type \in SessionPlcTypes
    /\ use_e4 \in BOOLEAN
    /\ comm_type = COMMTYPE_BINARY
    /\ wordsize = 2
    /\ subheader_serial = 0
    /\ endian = ENDIAN_LITTLE
    /\ is_connected = FALSE
    /\ sock = "none"
    /\ target_le \in BOOLEAN
    /\ wire = <<>>
    /\ ret = Idle

\* the caller takes the result of the call that returned
Return ==
    /\ ret.op # "idle"
    /\ ret.res.kind # "panic"       \* a panic unwinds the caller
    /\ ret' = Idle
    /\ wire' = <<>>
    /\ UNCHANGED client

\* Client::check_plc_type
check_plc_type ==
    IF plc_type \in {"Q", "L", "QnA", "iQ-L", "iQ-R"} THEN Ok(<<>>)
    ELSE Err("Invalid PLC type")

\* the transport events of connect and of close
ConnectEv(ok) == [dir |-> "connect", data |-> <<>>, ok |-> ok]

ShutdownEv(ok) == [dir |-> "shutdown", data |-> <<>>, ok |-> ok]

\* connect without the check of the series
connect_unchecked(tcp_ok) ==
    IF tcp_ok THEN IO(Ok(<<>>), <<ConnectEv(TRUE)>>)
    ELSE IO(Err("io"), <<ConnectEv(FALSE)>>)

\* the result of connect and the transport events it causes; tcp_ok:
\* whether TcpStream::connect and the two timeout settings succeed
connect(tcp_ok) ==
    TryIO(check_plc_type,
          LAMBDA checked :
              IF tcp_ok THEN IO(Ok(<<>>), <<ConnectEv(TRUE)>>)
              ELSE IO(Err("io"), <<ConnectEv(FALSE)>>))

\* Client::connect
Connect ==
    /\ ret.op = "idle"
    /\ \E tcp_ok \in BOOLEAN :
         /\ sock' = IF connect(tcp_ok).res.ok THEN "open" ELSE sock
         /\ is_connected' = IF connect(tcp_ok).res.ok THEN TRUE
                            ELSE is_connected
         /\ Step("connect", <<>>, connect(tcp_ok))
    /\ UNCHANGED <<plc_type, comm_type, wordsize, use_e4, subheader_serial,
                   endian, target_le>>

\* the result of close and the transport events it causes; shutdown_ok:
\* whether TcpStream::shutdown succeeds
close(shutdown_ok) ==
    IF sock = "none" THEN NoIO(Ok(<<>>))
    ELSE IF shutdown_ok THEN IO(Ok(<<>>), <<ShutdownEv(TRUE)>>)
    ELSE IO(Err("io"), <<ShutdownEv(FALSE)>>)

\* Client::close
Close ==
    /\ ret.op = "idle"
    /\ \E shutdown_ok \in BOOLEAN :
         /\ sock' = IF close(shutdown_ok).res.ok THEN "none" ELSE sock
         /\ is_connected' = IF close(shutdown_ok).res.ok THEN FALSE
                            ELSE is_connected
         /\ Step("close", <<>>, close(shutdown_ok))
    /\ UNCHANGED <<plc_type, comm_type, wordsize, use_e4, subheader_serial,
                   endian, target_le>>

\* set_comm_type with _wordsize left as it is
SetCommType_comm_type_only ==
    /\ ret.op = "idle"
    /\ \E ct \in {"binary", "ascii", "text"} :
         /\ comm_type' = CASE ct = "binary" -> COMMTYPE_BINARY
                           [] ct = "ascii" -> COMMTYPE_ASCII
                           [] OTHER -> comm_type
         /\ ret' = Returned("set_comm_type", <<ct>>,
                            IF ct \in {"binary", "ascii"} THEN Ok(<<>>)
                            ELSE Panic)
    /\ wire' = <<>>
    /\ UNCHANGED <<plc_type, wordsize, use_e4, subheader_serial, endian,
                   is_connected, sock, target_le>>

\* Client::set_comm_type
SetCommType ==
    /\ ret.op = "idle"
    /\ \E ct \in {"binary", "ascii", "text"} :
         /\ comm_type' = CASE ct = "binary" -> COMMTYPE_BINARY
                           [] ct = "ascii" -> COMMTYPE_ASCII
                           [] OTHER -> comm_type
         /\ wordsize' = CASE ct = "binary" -> 2
                          [] ct = "ascii" -> 4
                          [] OTHER -> wordsize
         /\ ret' = Returned("set_comm_type", <<ct>>,
                            IF ct \in {"binary", "ascii"} THEN Ok(<<>>)
                            ELSE Panic)
    /\ wire' = <<>>
    /\ UNCHANGED <<plc_type, use_e4, subheader_serial, endian, is_connected,
                   sock, target_le>>

\* Client::set_subheader_serial -> DeviceInfo::set_subheader_series
SetSubheaderSerial ==
    /\ ret.op = "idle"
    /\ \E s \in Serials :
         /\ subheader_serial' = IF use_e4 THEN s ELSE subheader_serial
         /\ ret' = Returned("set_subheader_serial", <<s>>, Ok(<<>>))
    /\ wire' = <<>>
    /\ UNCHANGED <<plc_type, comm_type, wordsize, use_e4, endian,
                   is_connected, sock, target_le>>

\* a call of Client::batch_read
BatchRead ==
    /\ ret.op = "idle"
    /\ \E ref_device \in {D100, BadToken}, read_size \in 0..MaxRead,
          data_type \in {"BIT", "SWORD", "UDWORD"}, decode \in BOOLEAN,
          net \in Nets :
         Step("batch_read", <<ref_device, read_size, data_type, decode>>,
              batch_read(ref_device, read_size, data_type, decode, net))
    /\ UNCHANGED client

BatchWriteValues == {<<>>, <<1>>, <<1, 0, 1>>, <<1234, -1>>}

\* a call of Client::batch_write
BatchWrite ==
    /\ ret.op = "idle"
    /\ \E ref_device \in {D100, BadToken}, values \in BatchWriteValues,
          data_type \in {"BIT", "SWORD", "UDWORD"}, net \in Nets :
         Step("batch_write", <<ref_device, values, data_type>>,
              batch_write(ref_device, values, data_type, net))
    /\ UNCHANGED client

QueryTag(device, data_type) == [device |-> device, data_type |-> data_type]

ReadLists ==
    {<<>>,
     <<QueryTag(D100, "SWORD")>>,
     <<QueryTag(D100, "UDWORD")>>,
     <<QueryTag(M8304, "BIT"), QueryTag(D100, "DOUBLE")>>,
     <<QueryTag(BadToken, "SWORD")>>}

\* a call of Client::read
Read ==
    /\ ret.op = "idle"
    /\ \E devices \in ReadLists, net \in Nets :
         Step("read", <<devices>>, read(devices, net))
    /\ UNCHANGED client

Text(cs) == Some(as_bytes(cs))

WriteLists ==
    {<<>>,
     <<Tag(D100, Text(<<"5">>), "SWORD")>>,
     <<Tag(M8304, Text(<<"1", " ", "0">>), "BIT")>>,
     <<Tag(M8304, Text(<<"1">>), "BIT"), Tag(D100, Text(<<"5">>), "SWORD")>>,
     <<Tag(M8304, Text(<<"1">>), "BIT"), Tag(X10, Text(<<"0">>), "BIT")>>,
     <<Tag(M8304, None, "BIT")>>,
     <<Tag(D100, Text(<<"7">>), "UDWORD")>>,
     <<Tag(D100, Text(<<"-", "1">>), "UWORD")>>,
     <<Tag(M8304, Text(<<"1">>), "BIT"), Tag(BadToken, Text(<<"5">>), "SWORD")>>}

\* the most exchanges one call of write makes on these lists
MaxExchanges == 3

\* what the peer and the network do to each exchange of one call of write
WriteNets ==
    [1..MaxExchanges -> {Answers(Reply(GoodStatus, <<>>)),
                         Answers(Reply(BadStatus, <<>>)), SendFails}]

\* a call of Client::write
Write ==
    /\ ret.op = "idle"
    /\ \E devices \in WriteLists, nets \in WriteNets :
         Step("write", <<devices>>, write(devices, nets))
    /\ UNCHANGED client

\* the buffers a caller hands to send
SendBuffers == {<<>>, <<1, 2, 3>>}

\* a call of Client::send
Send ==
    /\ ret.op = "idle"
    /\ \E send_data \in SendBuffers, net \in {SendFails, RecvFails} :
         Step("send", <<send_data>>, send(send_data, net))
    /\ UNCHANGED client

\* a call of Client::recv
Recv ==
    /\ ret.op = "idle"
    /\ \E net \in Nets : Step("recv", <<>>, recv(net))
    /\ UNCHANGED client

Next ==
    \/ Connect
    \/ Close
    \/ Send
    \/ Recv
    \/ SetCommType
    \/ SetSubheaderSerial
    \/ BatchRead
    \/ BatchWrite
    \/ Read
    \/ Write
    \/ Return

Spec == Init /\ [][Next]_vars

-----------------------------------------------------------------------------
(* The value codec on its own: encode_value applied to a value, and        *)
(* decode_value applied to the bytes it gave.  `endian` is the field the   *)
(* codec matches on: Client::new sets ENDIAN_LITTLE, and the codec has an  *)
(* arm for each of the three orders drawn here.                            *)

CodecValues ==
    {0, 1, 16, 255, 256, 1234, 32767, 32768, 65535, 65536, 305419896,
     2147483647, -1, -128, -32768, -65536, -2147483647}

InitCodec ==
    /\ plc_type = Q_SERIES
    /\ use_e4 = TRUE
    /\ comm_type = COMMTYPE_BINARY
    /\ wordsize = 2
    /\ subheader_serial = 0
    /\ endian \in {ENDIAN_LITTLE, ENDIAN_BIG, ENDIAN_NATIVE}
    /\ is_connected = FALSE
    /\ sock = "none"
    /\ target_le \in BOOLEAN
    /\ wire = <<>>
    /\ ret = Idle

\* a call of Client::encode_value
Encode ==
    /\ ret.op = "idle"
    /\ \E value \in CodecValues, mode \in DataType, is_signal \in BOOLEAN :
         ret' = Returned("encode_value", <<value, mode, is_signal>>,
                         encode_value(value, mode, is_signal))
    /\ UNCHANGED <<client, wire>>

\* a call of Client::decode_value on the bytes encode_value returned, with
\* the same type and sign flag
Decode ==
    /\ ret.op = "encode_value"
    /\ ret.res.ok
    /\ ret' = Returned("decode_value", ret.args,
                       decode_value(ret.res.val, ret.args[2], ret.args[3]))
    /\ UNCHANGED <<client, wire>>

NextCodec ==
    \/ Encode
    \/ Decode
    \/ Return

SpecCodec == InitCodec /\ [][NextCodec]_vars

-----------------------------------------------------------------------------
(* The frame builder on its own: build_send_data applied to a payload, in  *)
(* either wire encoding and for either frame variant.                      *)

MaxPayloadLen == 300

\* a payload of n bytes, no two neighbours equal
Payload(n) == [i \in 1..n |-> (7 * i + n) % 256]

\* a call of Client::build_send_data
BuildSendData ==
    /\ ret.op = "idle"
    /\ \E n \in 0..MaxPayloadLen :
         ret' = Returned("build_send_data", <<Payload(n)>>,
                         build_send_data(Payload(n)))
    /\ UNCHANGED <<client, wire>>

\* the command codes of db.rs
Commands == {BATCH_READ, BATCH_WRITE, RANDOM_READ, RANDOM_WRITE}

\* a call of Client::build_command_data
BuildCommandData ==
    /\ ret.op = "idle"
    /\ \E command \in Commands, subcommand \in {ZERO, ONE, TWO, THREE} :
         ret' = Returned("build_command_data", <<command, subcommand>>,
                         build_command_data(command, subcommand))
    /\ UNCHANGED <<client, wire>>

NextFrame ==
    \/ SetCommType
    \/ SetSubheaderSerial
    \/ BuildSendData
    \/ BuildCommandData
    \/ Return

SpecFrame == Init /\ [][NextFrame]_vars

-----------------------------------------------------------------------------
(* The error taxonomy on its own: check_mc_error applied to a status, and  *)
(* description applied to the error it gave.                               *)

\* the codes MCError::description has an arm for
TableCodes ==
    {80, 81, 82, 83, 84, 85, 49238, 49240, 49241, 49243, 49244, 49245,
     49247, 49248, 49249, 49263, 49264, 49333, 49664, 49665, 49668}

StatusCodes == (0..127) \cup TableCodes \cup {256, 49152, 49239, 65535}

\* a call of Client::check_mc_error
CheckMcError ==
    /\ ret.op = "idle"
    /\ \E status \in StatusCodes :
         ret' = Returned("check_mc_error", <<status>>, check_mc_error(status))
    /\ UNCHANGED <<client, wire>>

\* a call of MCError::description on the error check_mc_error returned
Description ==
    /\ ret.op = "check_mc_error"
    /\ ret.res.kind = "mc"
    /\ ret' = Returned("description", ret.args, Ok(description(ret.res.val)))
    /\ UNCHANGED <<client, wire>>

NextErr ==
    \/ CheckMcError
    \/ Description
    \/ Return

SpecErr == Init /\ [][NextErr]_vars

-----------------------------------------------------------------------------
(* Device tokens: a specification that applies get_device_type and         *)
(* get_device_index, and the two together as every access operation does,  *)
(* to tokens over a small alphabet and to some longer ones.                *)

MaxTokenLen == 3

TokenChars == {"D", "a", "1", "2", "\n"}

\* the tokens of exactly n characters
RECURSIVE TokensOfLen(_)
TokensOfLen(n) ==
    IF n = 0 THEN {<<>>}
    ELSE {<<c>> \o t : c \in TokenChars, t \in TokensOfLen(n - 1)}

Tokens ==
    UNION {TokensOfLen(n) : n \in 0..MaxTokenLen}
    \cup {D100, M8304, X10, BadToken,
          <<"D", "1", "0", "0", "A">>,
          <<"D", "1", "0", "0", "\n", "A">>,
          <<"D", "2", "1", "4", "7", "4", "8", "3", "6", "4", "7">>,
          <<"D", "2", "1", "4", "7", "4", "8", "3", "6", "4", "8">>}

\* let device_type = get_device_type(ref_device)?;
\* let device_index = get_device_index(ref_device)?;
batch_read_device(ref_device) ==
    Try(get_device_type(ref_device), LAMBDA device_type :
    Try(get_device_index(ref_device), LAMBDA device_index :
        Ok(<<device_type, device_index>>)))

\* a call of get_device_type
GetDeviceType ==
    /\ ret.op = "idle"
    /\ \E device \in Tokens :
         ret' = Returned("get_device_type", <<device>>,
                         get_device_type(device))
    /\ UNCHANGED <<client, wire>>

\* a call of get_device_index
GetDeviceIndex ==
    /\ ret.op = "idle"
    /\ \E device \in Tokens :
         ret' = Returned("get_device_index", <<device>>,
                         get_device_index(device))
    /\ UNCHANGED <<client, wire>>

\* the two calls at the head of an access operation
BatchReadDevice ==
    /\ ret.op = "idle"
    /\ \E ref_device \in Tokens :
         ret' = Returned("batch_read_device", <<ref_device>>,
                         batch_read_device(ref_device))
    /\ UNCHANGED <<client, wire>>

NextToken ==
    \/ GetDeviceType
    \/ GetDeviceIndex
    \/ BatchReadDevice
    \/ Return

SpecToken == Init /\ [][NextToken]_vars

-----------------------------------------------------------------------------
(* Device addresses: a specification that looks device classes up for      *)
(* every series and builds the address of device references in either      *)
(* encoding, for the series the session was constructed with.              *)

\* the series of db.rs
Series == {Q_SERIES, L_SERIES, QNA_SERIES, IQL_SERIES, IQR_SERIES}

\* the device classes of the two tables, one more and one that is in
\* neither, as characters
ClassNames ==
    {<<"S", "M">>, <<"S", "D">>, <<"X">>, <<"Y">>, <<"M">>, <<"L">>,
     <<"F">>, <<"V">>, <<"B">>, <<"D">>, <<"W">>, <<"T", "S">>,
     <<"T", "C">>, <<"T", "N">>, <<"S", "S">>, <<"S", "C">>, <<"S", "N">>,
     <<"C", "S">>, <<"C", "C">>, <<"C", "N">>, <<"S", "B">>, <<"S", "W">>,
     <<"D", "X">>, <<"D", "Y">>, <<"R">>, <<"Z", "R">>,
     <<"S", "T", "S">>, <<"S", "T", "C">>, <<"S", "T", "N">>,
     <<"L", "T", "S">>, <<"L", "T", "C">>, <<"L", "T", "N">>,
     <<"L", "S", "T", "S">>, <<"L", "S", "T", "C">>, <<"L", "S", "T", "N">>,
     <<"L", "C", "S">>, <<"L", "C", "C">>, <<"L", "C", "N">>,
     <<"L", "Z">>, <<"R", "D">>, <<"Q", "Q">>}

\* the index texts of the device references
IndexTexts ==
    {<<"0">>, <<"1", "0">>, <<"1", "0", "0">>, <<"9", "9">>,
     <<"1", "2", "3", "4", "5", "6">>,
     <<"1", "2", "3", "4", "5", "6", "7">>,
     <<"1", "6", "7", "7", "7", "2", "1", "6">>}

\* a call of DeviceConstants::get_binary_device_code
GetBinaryDeviceCode ==
    /\ ret.op = "idle"
    /\ \E plc \in Series, device_name \in ClassNames :
         ret' = Returned("get_binary_device_code", <<plc, device_name>>,
                         get_binary_device_code(plc, Str(device_name)))
    /\ UNCHANGED <<client, wire>>

\* a call of DeviceConstants::get_ascii_device_code
GetAsciiDeviceCode ==
    /\ ret.op = "idle"
    /\ \E plc \in Series, device_name \in ClassNames :
         ret' = Returned("get_ascii_device_code", <<plc, device_name>>,
                         get_ascii_device_code(plc, device_name))
    /\ UNCHANGED <<client, wire>>

\* a call of Client::build_device_data
BuildDeviceData ==
    /\ ret.op = "idle"
    /\ \E device_name \in ClassNames, index \in IndexTexts :
         ret' = Returned("build_device_data", <<device_name, index>>,
                         build_device_data(device_name \o index))
    /\ UNCHANGED <<client, wire>>

NextDevice ==
    \/ GetBinaryDeviceCode
    \/ GetAsciiDeviceCode
    \/ BuildDeviceData
    \/ SetCommType
    \/ Return

SpecDevice == Init /\ [][NextDevice]_vars

-----------------------------------------------------------------------------
(* Properties of the session (Spec) *)

AccessOps == {"batch_read", "batch_write", "read", "write"}

\* the number of sends / of receives among the events of a call
Sends(events) ==
    Cardinality({k \in 1..Len(events) : events[k].dir = "send"})

Recvs(events) ==
    Cardinality({k \in 1..Len(events) : events[k].dir = "recv"})

\* one send that succeeded, followed by one receive, and nothing else
OneExchange(events) ==
    /\ Len(events) = 2
    /\ events[1].dir = "send"
    /\ events[1].ok
    /\ events[2].dir = "recv"

\* sends and receives alternate, starting with a send, and nothing follows
\* a send or a receive that failed
Alternates(events) ==
    \A k \in 1..Len(events) :
        /\ events[k].dir = (IF k % 2 = 1 THEN "send" ELSE "recv")
        /\ ~events[k].ok => k = Len(events)

\* the tags of a write that are handed to batch_write
BitWrites(devices) ==
    Cardinality({i \in 1..Len(devices) :
                    devices[i].data_type = "BIT" /\ devices[i].value.some})

\* C1 as stated: every access operation performs exactly one send followed
\* by one receive before it returns; no call performs a second exchange.
\* For every call no more than one send and one receive, and for every call
\* that succeeds exactly one exchange.
C1_OneExchangePerCall ==
    ret.op \in AccessOps =>
        /\ Sends(wire) <= 1
        /\ Recvs(wire) <= 1
        /\ ret.res.ok => OneExchange(wire)

\* C1 amended: batch_read and batch_write perform at most one exchange and
\* exactly one when they succeed; read likewise, except that a read of no
\* tags succeeds without I/O; write performs one exchange for each BIT tag
\* that has a value (its batch_write) and then one for the rest, so at most
\* BitWrites + 1 and exactly that many when it succeeds.  In every call the
\* sends and receives alternate: no request is sent before the previous one
\* is answered.
C1_ExchangesPerCall ==
    ret.op \in AccessOps =>
        /\ Alternates(wire)
        /\ ret.op \in {"batch_read", "batch_write"} =>
               /\ Sends(wire) <= 1
               /\ ret.res.ok => OneExchange(wire)
        /\ ret.op = "read" =>
               /\ Sends(wire) <= 1
               /\ ret.res.ok =>
                      IF ret.args[1] = <<>> THEN wire = <<>>
                      ELSE OneExchange(wire)
        /\ ret.op = "write" =>
               /\ Sends(wire) <= BitWrites(ret.args[1]) + 1
               /\ ret.res.ok =>
                      /\ Sends(wire) = BitWrites(ret.args[1]) + 1
                      /\ Recvs(wire) = Sends(wire)

\* C1, the case the amendment is about: a write of two BIT tags that
\* succeeded after three exchanges
C1_WriteWithBitTags ==
    /\ ret.op = "write"
    /\ ret.res.ok
    /\ BitWrites(ret.args[1]) = 2
    /\ Sends(wire) = 3
    /\ Recvs(wire) = 3

\* whether a reply holds a status field that reads as a 16-bit number
HasStatus(reply) ==
    /\ Len(reply) >= get_response_status_index + wordsize
    /\ comm_type # COMMTYPE_BINARY =>
           \A k \in 1..4 : HexVal(reply[get_response_status_index + k]) # -1

\* the 16-bit status of a reply: two bytes, low byte first, in binary; four
\* hexadecimal digits in ASCII
Status16(reply) ==
    IF comm_type = COMMTYPE_BINARY
    THEN U16(reply[get_response_status_index + 1],
             reply[get_response_status_index + 2])
    ELSE 4096 * HexVal(reply[get_response_status_index + 1])
         + 256 * HexVal(reply[get_response_status_index + 2])
         + 16 * HexVal(reply[get_response_status_index + 3])
         + HexVal(reply[get_response_status_index + 4])

\* C2: whenever an access operation receives a reply whose 16-bit status
\* is not zero, it returns a protocol error; so it succeeds only when the
\* status of every reply it received is zero.
C2_StatusNeverIgnored ==
    ret.op \in AccessOps =>
        \A k \in 1..Len(wire) :
            (/\ wire[k].dir = "recv"
             /\ wire[k].ok
             /\ HasStatus(wire[k].data)
             /\ Status16(wire[k].data) # 0)
            => ret.res.kind = "mc"

\* C2, a failing case: a binary batch_write returns success on a reply whose
\* status bytes are 00 C0, the 16-bit status 0xC000
C2_NonZeroStatusAccepted ==
    /\ ret.op = "batch_write"
    /\ comm_type = COMMTYPE_BINARY
    /\ ret.res.ok
    /\ OneExchange(wire)
    /\ wire[2].ok
    /\ HasStatus(wire[2].data)
    /\ Status16(wire[2].data) = 49152

\* bit b of a byte
BitOf(byte, b) == (byte \div Pow(2, b)) % 2

\* the reply of a call that made one exchange
ReplyOf(events) == events[2].data

\* the bit the claim gives element i of a BIT read
ExpectedBit(reply, i) ==
    BitOf(reply[get_response_data_index + i \div 2 + 1],
          IF i % 2 = 0 THEN 4 ELSE 0)

\* C9: in a binary batch_read of n BIT elements with decode = true that
\* succeeds, element i is bit 4 (i even) or bit 0 (i odd) of the reply byte
\* at data_offset + floor(i / 2).
C9_BitElements ==
    (/\ ret.op = "batch_read"
     /\ comm_type = COMMTYPE_BINARY
     /\ ret.args[3] = "BIT"
     /\ ret.args[4]
     /\ ret.res.ok)
    => \A i \in 0..(ret.args[2] - 1) :
           ret.res.val[i + 1].value
               = Some(int_to_bytes(ExpectedBit(ReplyOf(wire), i)))

\* C9, a failing case: batch_read(D100, 4, BIT, true) on the data bytes
\* 10 01 00 returns 0 for element 3, which is bit 0 of the third byte; bit
\* 0 of the second byte, at data_offset + 1, is 1
C9_FourthBitFromThirdByte ==
    /\ ret.op = "batch_read"
    /\ comm_type = COMMTYPE_BINARY
    /\ ret.args = <<D100, 4, "BIT", TRUE>>
    /\ ret.res.ok
    /\ SubSeq(ReplyOf(wire), get_response_data_index + 1,
              Len(ReplyOf(wire))) = <<16, 1, 0>>
    /\ ExpectedBit(ReplyOf(wire), 3) = 1
    /\ ret.res.val[4].value = Some(int_to_bytes(0))

\* the two reply bytes of word k, read as a 16-bit little-endian integer
\* (unsigned, or signed)
ExpectedWords(reply, k) ==
    {U16(reply[get_response_data_index + 2 * k + 1],
         reply[get_response_data_index + 2 * k + 2]),
     I16(reply[get_response_data_index + 2 * k + 1],
         reply[get_response_data_index + 2 * k + 2])}

\* a binary batch_read(D100, n, SWORD, true) that received a reply with
\* status 0 and n words of data
WordReadAnswered ==
    /\ ret.op = "batch_read"
    /\ comm_type = COMMTYPE_BINARY
    /\ ret.args[1] = D100
    /\ ret.args[3] = "SWORD"
    /\ ret.args[4]
    /\ Len(wire) = 2
    /\ wire[2].ok
    /\ HasStatus(ReplyOf(wire))
    /\ Status16(ReplyOf(wire)) = 0
    /\ Len(ReplyOf(wire)) >= get_response_data_index + 2 * ret.args[2]

\* C10: such a read returns exactly n tags; tag k is named D(100 + k) and
\* its value is the 16-bit little-endian integer of the two reply bytes at
\* data_offset + 2k.
C10_WordElements ==
    WordReadAnswered =>
        /\ ret.res.ok
        /\ Len(ret.res.val) = ret.args[2]
        /\ \A k \in 0..(ret.args[2] - 1) :
               /\ ret.res.val[k + 1].device
                      = format_device(<<"D">>, 100 + k)
               /\ \E word \in ExpectedWords(ReplyOf(wire), k) :
                      ret.res.val[k + 1].value = Some(int_to_bytes(word))

\* C10, a failing case: batch_read(D100, 4, SWORD, true) on a reply whose
\* first data bytes are 34 12 returns 52 (0x34) for D100, not 4660 (0x1234)
C10_LowByteOnly ==
    /\ WordReadAnswered
    /\ ret.args[2] = 4
    /\ ret.res.ok
    /\ ReplyOf(wire)[get_response_data_index + 1] = 52
    /\ ReplyOf(wire)[get_response_data_index + 2] = 18
    /\ ret.res.val[1].device = D100
    /\ ret.res.val[1].value = Some(int_to_bytes(52))

-----------------------------------------------------------------------------
(* Properties of the value codec (SpecCodec) *)

\* the bytes of the integer the codec is to use for a type
CodecBytes(mode) ==
    CASE size(mode) = 2 -> 1
      [] size(mode) = 4 -> 2
      [] size(mode) = 8 -> 4

\* x is v truncated to n bytes: the same low n bytes, and the rest of x
\* their sign extension (signed) or zero (unsigned)
Truncated(x, v, n, signed) ==
    /\ LEBytes(x, n) = LEBytes(v, n)
    /\ IF signed /\ ByteAt(x, n - 1) >= 128
       THEN x < 0 /\ \A k \in n..3 : ByteAt(x, k) = 255
       ELSE x >= 0 /\ \A k \in n..3 : ByteAt(x, k) = 0

\* C4: in binary encoding, for every type, sign flag, byte order and value
\* v, decoding what encode_value gave for v returns v truncated to the
\* integer of the type: 8 bits (unsigned, the single byte) for width 2, 16
\* bits for width 4, 32 bits for width 8, signed or unsigned per flag.
C4_RoundTrip ==
    ret.op = "decode_value" =>
        /\ ret.res.ok
        /\ Truncated(ret.res.val, ret.args[1], CodecBytes(ret.args[2]),
                     ret.args[3] /\ size(ret.args[2]) # 2)

\* C4, a failing case: little-endian, SLWORD, unsigned, 65536 is encoded as
\* 00 00 01 00 and decoded as 0
C4_HighHalfLost ==
    /\ endian = ENDIAN_LITTLE
    /\ ret.op = "decode_value"
    /\ ret.args = <<65536, "SLWORD", FALSE>>
    /\ ret.res = Ok(0)

-----------------------------------------------------------------------------
(* Properties of the frame builder (SpecFrame) *)

\* the fields of a frame from the network id on, then the payload
FromNetwork(request_data) ==
    Collect(<<
        encode_value(network, "BIT", FALSE),
        encode_value(pc, "BIT", FALSE),
        encode_value(dest_moduleio, "SWORD", FALSE),
        encode_value(dest_modulesta, "BIT", FALSE),
        encode_value(wordsize + Len(request_data), "SWORD", FALSE),
        encode_value(timer, "SWORD", FALSE),
        Ok(request_data) >>).val

\* the serial field and the reserved zero field of a 4E frame
SerialAndReserved ==
    encode_value(get_subheader_serial, "SWORD", FALSE).val
        \o encode_value(0, "SWORD", FALSE).val

\* C6: a 3E frame is the subheader immediately followed by the network id
\* field; a 4E frame is the subheader, the serial field, a reserved zero
\* field, then the network id field.
C6_TransportHeader ==
    ret.op = "build_send_data" =>
        /\ ret.res.ok
        /\ ret.res.val =
               IF use_e4
               THEN subheader_bytes.val \o SerialAndReserved
                        \o FromNetwork(ret.args[1])
               ELSE subheader_bytes.val \o FromNetwork(ret.args[1])

\* C6, a failing case: the 3E binary frame of the empty payload is 50 00,
\* a serial byte, a zero byte, 50 00 again, and only then the network id
C6_SecondSubheaderIn3E ==
    /\ ~use_e4
    /\ comm_type = COMMTYPE_BINARY
    /\ ret.op = "build_send_data"
    /\ ret.args[1] = <<>>
    /\ ret.res = Ok(<<80, 0, 0, 0, 80, 0, 0, 255, 255, 0, 2, 4>>)

\* the number of bytes encode_value gives a SWORD field
SwordFieldLen == Len(encode_value(0, "SWORD", FALSE).val)

\* the body-length field of a frame built for a payload of n bytes: the
\* field before the timer field, which is the last before the payload
BodyLengthField(frame, n) ==
    SubSeq(frame, Len(frame) - n - 2 * SwordFieldLen + 1,
           Len(frame) - n - SwordFieldLen)

\* the number a field carries, low byte first
RECURSIVE FieldValue(_)
FieldValue(bytes) ==
    IF bytes = <<>> THEN 0 ELSE Head(bytes) + 256 * FieldValue(Tail(bytes))

\* C7: for every payload of 0..MaxPayloadLen bytes the body-length field
\* of the built frame carries wordsize + len(payload).
C7_BodyLength ==
    ret.op = "build_send_data" =>
        /\ ret.res.ok
        /\ FieldValue(BodyLengthField(ret.res.val, Len(ret.args[1])))
               = wordsize + Len(ret.args[1])

\* C7, a failing case: in binary encoding the frame of a payload of 254
\* bytes carries the body length 0, not 256
C7_LengthWraps ==
    /\ comm_type = COMMTYPE_BINARY
    /\ ret.op = "build_send_data"
    /\ Len(ret.args[1]) = 254
    /\ ret.res.ok
    /\ BodyLengthField(ret.res.val, 254) = <<0>>

\* C8: for a 4E session in binary encoding build_send_data returns a frame
\* of len(payload) + 10 bytes whose last len(payload) bytes are the payload.
C8_FrameLength ==
    (ret.op = "build_send_data" /\ use_e4 /\ comm_type = COMMTYPE_BINARY) =>
        /\ ret.res.ok
        /\ Len(ret.res.val) = Len(ret.args[1]) + 10
        /\ SubSeq(ret.res.val, 11, Len(ret.res.val)) = ret.args[1]

\* C8, the case of the test: a 4E binary frame of 14 bytes for a payload
\* of 4 bytes
C8_FourBytePayload ==
    /\ ret.op = "build_send_data"
    /\ use_e4
    /\ comm_type = COMMTYPE_BINARY
    /\ Len(ret.args[1]) = 4
    /\ ret.res.ok
    /\ Len(ret.res.val) = 14

-----------------------------------------------------------------------------
(* Properties of the error taxonomy (SpecErr) *)

UpperHexChars == <<"0", "1", "2", "3", "4", "5", "6", "7", "8", "9",
                   "A", "B", "C", "D", "E", "F">>

\* a code as the arms of MCError::description spell it
TableKey(code) ==
    "0x" \o UpperHexChars[((code \div 4096) % 16) + 1]
         \o UpperHexChars[((code \div 256) % 16) + 1]
         \o UpperHexChars[((code \div 16) % 16) + 1]
         \o UpperHexChars[(code % 16) + 1]

\* the text of the arm of a code of the table
TableText(code) ==
    Descriptions[CHOOSE i \in 1..Len(Descriptions) :
                     TableKey(code) \in Descriptions[i][1]][2]

\* C3: the description of the error built from a status code is the text
\* of the table for every code of the table, and the unknown-code message
\* with the formatted code for every other code.
C3_Description ==
    ret.op = "description" =>
        ret.res.val =
            IF ret.args[1] \in TableCodes THEN TableText(ret.args[1])
            ELSE MCError_new(ret.args[1]) \o ": Unknown error code."

\* C3, a failing case: the description of the error built from 0xC059 is
\* the unknown-code message
C3_KnownCodeUnknown ==
    /\ ret.op = "description"
    /\ ret.args[1] = 49241
    /\ ret.args[1] \in TableCodes
    /\ ret.res.val = "0xc059: Unknown error code."

-----------------------------------------------------------------------------
(* Properties of random access (Spec) *)

\* the length of one device-address entry of a request
EntryLen ==
    IF comm_type = COMMTYPE_BINARY
    THEN (IF plc_type = IQR_SERIES THEN 6 ELSE 4)
    ELSE (IF plc_type = IQR_SERIES THEN 10 ELSE 8)

\* the last n bytes of a frame
LastBytes(frame, n) == SubSeq(frame, Len(frame) - n + 1, Len(frame))

\* entry j (1-based) of a run of device-address entries
EntryAt(entries, j) ==
    SubSeq(entries, (j - 1) * EntryLen + 1, j * EntryLen)

\* the number a run of hexadecimal digits spells
RECURSIVE HexNumber(_)
HexNumber(digits) ==
    IF digits = <<>> THEN 0
    ELSE 16 * HexNumber(SubSeq(digits, 1, Len(digits) - 1))
         + HexVal(digits[Len(digits)])

\* the device number an entry carries: three (or four) little-endian bytes
\* in binary, six hexadecimal digits after the device code in ASCII
EntryNumber(entry) ==
    IF comm_type = COMMTYPE_BINARY
    THEN entry[1] + 256 * entry[2] + 65536 * entry[3]
    ELSE HexNumber(LastBytes(entry, 6))

\* the words of tag i of a list: for each the tag and the device
\* class+(index+k)
WordsOfTag(devices, i) ==
    [k \in 1..(size(devices[i].data_type) \div 2) |->
        [tag |-> i,
         device |-> format_device(get_device_type(devices[i].device).val,
                        get_device_index(devices[i].device).val + (k - 1))]]

\* the words of all the tags of a list, in order
WordsOf(devices) ==
    Flatten([i \in 1..Len(devices) |-> WordsOfTag(devices, i)])

\* the frame a call sent first
SentFrame(events) == events[1].data

\* the length of a frame that carries the head of a random request only
RandomHeadFrameLen(command, devices) ==
    Len(build_send_data(random_request_head(command, devices).val).val)

\* what C11 says of a request of read for `devices` sent as `frame`: after
\* the head come exactly as many entries as the tags have words, entry j is
\* the address of the j-th word's device, and the device numbers of the
\* entries of one tag increase strictly
ReadEntriesAsStated(devices, frame) ==
    /\ Len(frame) = RandomHeadFrameLen(RANDOM_READ, devices)
                    + Len(WordsOf(devices)) * EntryLen
    /\ \A j \in 1..Len(WordsOf(devices)) :
           /\ build_device_data(WordsOf(devices)[j].device).ok
           /\ EntryAt(LastBytes(frame, Len(WordsOf(devices)) * EntryLen), j)
                  = build_device_data(WordsOf(devices)[j].device).val
    /\ \A j \in 1..(Len(WordsOf(devices)) - 1) :
           WordsOf(devices)[j].tag = WordsOf(devices)[j + 1].tag =>
               EntryNumber(EntryAt(LastBytes(frame,
                                   Len(WordsOf(devices)) * EntryLen), j))
               < EntryNumber(EntryAt(LastBytes(frame,
                                     Len(WordsOf(devices)) * EntryLen), j + 1))

\* C11: in every request a read sends, a query tag whose type has width w
\* contributes exactly w/2 device-address entries, for the devices
\* class+index, class+(index+1), ..., with strictly increasing device
\* number; a single-word tag contributes exactly one entry.
C11_ReadEntries ==
    (ret.op = "read" /\ Sends(wire) > 0)
    => /\ \A i \in 1..Len(ret.args[1]) :
              Len(WordsOfTag(ret.args[1], i))
                  = size(ret.args[1][i].data_type) \div 2
       /\ ReadEntriesAsStated(ret.args[1], SentFrame(wire))

\* C11, its case: a read of a BIT tag and a DOUBLE tag (width 8) at D100
\* sent a request that ends with five entries, the last four for D100,
\* D101, D102 and D103
C11_DoubleSentAsFourEntries ==
    /\ ret.op = "read"
    /\ Sends(wire) = 1
    /\ ret.args[1] = <<QueryTag(M8304, "BIT"), QueryTag(D100, "DOUBLE")>>
    /\ Len(WordsOf(ret.args[1])) = 5
    /\ WordsOf(ret.args[1])[5].device = <<"D", "1", "0", "3">>
    /\ EntryNumber(LastBytes(SentFrame(wire), EntryLen))
           = IF comm_type = COMMTYPE_BINARY THEN 103 ELSE 259

\* the tags of a write that have more than one word and a value that
\* parses as an integer
MultiWordTags(devices) ==
    {i \in 1..Len(devices) :
        /\ size(devices[i].data_type) > 2
        /\ devices[i].value.some
        /\ parse_i64(devices[i].value.s).ok}

\* the frame a call sent last
LastSentFrame(events) ==
    events[CHOOSE k \in 1..Len(events) :
               /\ events[k].dir = "send"
               /\ \A j \in (k + 1)..Len(events) : events[j].dir # "send"].data

\* bytes from..to (1-based, inclusive) of the part of a frame after its
\* first `skip` bytes
FramePart(frame, skip, from, to) == SubSeq(frame, skip + from, skip + to)

\* what C12 says of the request of a write of the one tag `tag`, sent as
\* `frame`: after the head come w/2 groups, group k being the address of
\* class+(index+k) followed by bytes k*wordsize .. (k+1)*wordsize of the
\* encoded value
WriteGroupsAsStated(tag, frame) ==
    /\ Len(frame) = RandomHeadFrameLen(RANDOM_WRITE, <<tag>>)
                    + (size(tag.data_type) \div 2) * (EntryLen + wordsize)
    /\ Len(encode_value(parse_i64(tag.value.s).val, tag.data_type,
                        FALSE).val)
           = (size(tag.data_type) \div 2) * wordsize
    /\ \A k \in 1..(size(tag.data_type) \div 2) :
           /\ FramePart(frame, RandomHeadFrameLen(RANDOM_WRITE, <<tag>>),
                        (k - 1) * (EntryLen + wordsize) + 1,
                        (k - 1) * (EntryLen + wordsize) + EntryLen)
                  = build_device_data(WordsOfTag(<<tag>>, 1)[k].device).val
           /\ FramePart(frame, RandomHeadFrameLen(RANDOM_WRITE, <<tag>>),
                        (k - 1) * (EntryLen + wordsize) + EntryLen + 1,
                        k * (EntryLen + wordsize))
                  = SubSeq(encode_value(parse_i64(tag.value.s).val,
                                        tag.data_type, FALSE).val,
                           (k - 1) * wordsize + 1, k * wordsize)

\* C12: a write of one tag whose type has width w > 2 and whose value
\* parses as an integer does not abort; on a connected session its request
\* is built and sent, and carries exactly w/2 device-address entries for
\* class+index, class+(index+1), ..., each followed by the next
\* wordsize-byte chunk of the encoded value.
C12_MultiWordWrite ==
    (ret.op = "write" /\ Len(ret.args[1]) = 1
                      /\ MultiWordTags(ret.args[1]) = {1})
    => /\ ret.res.kind # "panic"
       /\ is_connected =>
              /\ Sends(wire) = 1
              /\ WriteGroupsAsStated(ret.args[1][1], LastSentFrame(wire))

\* C12, a failing case: on a connected session write of D100 = 7 as a
\* UDWORD aborts before anything is sent; the encoded value has two bytes,
\* fewer than the two chunks of wordsize bytes the loop takes from it
C12_ChunkPastEncodedValue ==
    /\ ret.op = "write"
    /\ is_connected
    /\ ret.args[1] = <<Tag(D100, Text(<<"7">>), "UDWORD")>>
    /\ MultiWordTags(ret.args[1]) = {1}
    /\ Len(encode_value(7, "UDWORD", FALSE).val) = 2
    /\ 2 * wordsize > 2
    /\ ret.res.kind = "panic"
    /\ wire = <<>>

-----------------------------------------------------------------------------
(* Properties of the session's failures and connection state (Spec) *)

\* C13: every failure is surfaced as an error result: whatever the reply
\* buffer (shorter than status_offset + wordsize, shorter than the data to
\* decode, non-hexadecimal status text in ASCII), batch_read, batch_write,
\* read and write return a value to the caller and never abort once a reply
\* has been received.
C13_NeverAborts ==
    (/\ ret.op \in AccessOps
     /\ wire # <<>>
     /\ wire[Len(wire)].dir = "recv"
     /\ wire[Len(wire)].ok)
    => ret.res.kind # "panic"

\* C13, a failing case: a batch_read sent its request, received a reply
\* that ends before the status field does, and aborted
C13_ShortReplyAborts ==
    /\ ret.op = "batch_read"
    /\ Len(wire) = 2
    /\ wire[2].dir = "recv"
    /\ wire[2].ok
    /\ Len(wire[2].data) < get_response_status_index + wordsize
    /\ ret.res.kind = "panic"

\* the series check_plc_type accepts
ValidSeries == {"Q", "L", "QnA", "iQ-L", "iQ-R"}

\* C14: on a session whose series is not one of Q, L, QnA, iQ-L, iQ-R,
\* connect returns an error without calling the transport, the session
\* stays not connected and holds no socket, and no operation on it causes
\* a transport event.
C14_InvalidSeriesNoIO ==
    plc_type \notin ValidSeries =>
        /\ wire = <<>>
        /\ ~is_connected
        /\ sock = "none"
        /\ ret.op = "connect" => ret.res.kind = "err"
        /\ ret.op = "send" => ret.res.kind = "err"

\* C14, its case: connect has returned an error on a session of an invalid
\* series
C14_ConnectRejected ==
    /\ plc_type \notin ValidSeries
    /\ ret.op = "connect"
    /\ ret.res = Err("Invalid PLC type")
    /\ wire = <<>>
    /\ ~is_connected

\* C15: after close has returned, with Ok or with an error, the session
\* holds no socket and its connection-state flag is false (so a following
\* send is refused).
C15_CloseReleases ==
    ret.op = "close" =>
        /\ sock = "none"
        /\ ~is_connected
        /\ ~send(<<>>, SendFails).res.ok
        /\ send(<<>>, SendFails).wire = <<>>

\* C15, a failing case: close on a connected session returned the error of
\* a failed shutdown; the session still holds the socket and its flag is
\* true
C15_FailedShutdownKeepsSocket ==
    /\ ret.op = "close"
    /\ ret.res = Err("io")
    /\ wire = <<ShutdownEv(FALSE)>>
    /\ sock = "open"
    /\ is_connected

\* C16: in every state of a session wordsize is 2 exactly when the wire
\* encoding is binary and 4 exactly when it is ASCII, and the encoding is
\* one of the two.
C16_WordsizeFollowsCommType ==
    /\ comm_type \in {COMMTYPE_BINARY, COMMTYPE_ASCII}
    /\ wordsize \in {2, 4}
    /\ wordsize = 2 <=> comm_type = COMMTYPE_BINARY
    /\ wordsize = 4 <=> comm_type = COMMTYPE_ASCII

\* C16, its case: set_comm_type("ascii") has returned on a session that was
\* constructed binary
C16_SetToAscii ==
    /\ ret.op = "set_comm_type"
    /\ ret.args = <<"ascii">>
    /\ ret.res.ok
    /\ comm_type = COMMTYPE_ASCII
    /\ wordsize = 4

-----------------------------------------------------------------------------
(* Properties of the serial number (SpecFrame) *)

\* the serial field of a built frame: the field after the subheader
SerialField(frame) ==
    SubSeq(frame, Len(subheader_bytes.val) + 1,
           Len(subheader_bytes.val) + SwordFieldLen)

\* C17: on a 4E session the serial reads back as the value last set, and
\* the serial field of every frame built carries that value; on a 3E
\* session the serial stays 0.
C17_SerialCarried ==
    /\ ~use_e4 => get_subheader_serial = 0
    /\ (use_e4 /\ ret.op = "set_subheader_serial") =>
           get_subheader_serial = ret.args[1]
    /\ (use_e4 /\ ret.op = "build_send_data") =>
           /\ ret.res.ok
           /\ FieldValue(SerialField(ret.res.val)) = get_subheader_serial

\* C17, a failing case: on a 4E session with the serial set to 256 the
\* serial field of a built frame is the one byte 00, which is also the
\* field of serial 0
C17_SerialFieldOneByte ==
    /\ use_e4
    /\ ret.op = "build_send_data"
    /\ get_subheader_serial = 256
    /\ SerialField(ret.res.val) = <<0>>
    /\ SerialField(ret.res.val) = encode_value(0, "SWORD", FALSE).val

-----------------------------------------------------------------------------
(* Properties of device tokens (SpecToken) *)

\* a non-empty run of non-digits followed by a non-empty run of decimal
\* digits, and nothing else; n is the length of the first run
ClassThenDigits(token, n) ==
    /\ \A i \in 1..n : ~IsDigit(token[i])
    /\ \A i \in (n + 1)..Len(token) : IsDigit(token[i])

WellFormedToken(token) ==
    \E n \in 1..(Len(token) - 1) : ClassThenDigits(token, n)

ClassLen(token) ==
    CHOOSE n \in 1..(Len(token) - 1) : ClassThenDigits(token, n)

\* the number a run of decimal digits spells
RECURSIVE DecimalValue(_)
DecimalValue(digits) ==
    IF digits = <<>> THEN 0
    ELSE 10 * DecimalValue(SubSeq(digits, 1, Len(digits) - 1))
         + DigitVal(digits[Len(digits)])

\* C18: a token is accepted exactly when it is a non-empty run of non-digit
\* characters followed by a non-empty run of decimal digits; the class is
\* the leading run and the index the value of the digit run; every other
\* token fails with an error.
C18_TokenParsing ==
    ret.op = "batch_read_device" =>
        IF WellFormedToken(ret.args[1])
        THEN /\ ret.res.ok
             /\ ret.res.val[1]
                    = SubSeq(ret.args[1], 1, ClassLen(ret.args[1]))
             /\ ret.res.val[2]
                    = DecimalValue(SubSeq(ret.args[1],
                                          ClassLen(ret.args[1]) + 1,
                                          Len(ret.args[1])))
        ELSE ret.res.kind = "err"

\* C18, a failing case: the token D100, a line feed, A, which has a letter
\* after its digits, is accepted as class D and index 100
C18_TextAfterLineFeedAccepted ==
    /\ ret.op = "batch_read_device"
    /\ ret.args[1] = <<"D", "1", "0", "0", "\n", "A">>
    /\ ~WellFormedToken(ret.args[1])
    /\ ret.res = Ok(<<<<"D">>, 100>>)

-----------------------------------------------------------------------------
(* Properties of the connection state (Spec) *)

\* the error of send on a session that is not connected
NotConnected ==
    Err("Socket is not connected. Please use the connect method.")

\* a write that never has a request to send: building the entries of one
\* of its tags aborts
RequestAborts(devices) ==
    \E i \in 1..Len(devices) :
        /\ devices[i].data_type # "BIT"
        /\ write_entries(devices[i]).kind = "panic"

-----------------------------------------------------------------------------
(* Properties of the BIT tags of a random write (Spec) *)

\* whether tag i of a write is handed to batch_write
IsBitWrite(devices, i) ==
    devices[i].data_type = "BIT" /\ devices[i].value.some

\* the index of the j-th tag of a write that is handed to batch_write
NthBitWrite(devices, j) ==
    CHOOSE i \in 1..Len(devices) :
        /\ IsBitWrite(devices, i)
        /\ Cardinality({k \in 1..(i - 1) : IsBitWrite(devices, k)}) = j - 1

\* the frame of a batch write of the integers of a tag's value to the
\* tag's device
BatchWriteFrame(tag) ==
    build_send_data(
        batch_write_request(tag.device,
                            parsed_parts(split_whitespace(tag.value.s)),
                            "BIT").val).val

\* the entries and value bytes of the tags of a write that are not BIT
NonBitEntries(devices) ==
    Flatten([i \in 1..Len(devices) |->
                IF devices[i].data_type = "BIT" THEN <<>>
                ELSE write_entries(devices[i]).val])

\* the frame of the main request of a write: the head, then what the tags
\* that are not BIT contribute
MainWriteFrame(devices) ==
    build_send_data(random_request_head(RANDOM_WRITE, devices).val
                    \o NonBitEntries(devices)).val

\* the frame of the j-th send of a call whose sends and receives alternate
SendAt(events, j) == events[2 * j - 1].data

\* C20: in a write, the j-th request sent, for j up to the number of BIT
\* tags with a value, is one batch write of the integers parsed from the
\* whitespace-separated value of the j-th such tag to that tag's device;
\* the request sent after them is the main request, which carries the head
\* and the entries of the other tags only: no device address and no value
\* bytes of a BIT tag.
C20_BitTagsDelegated ==
    ret.op = "write" =>
        /\ Alternates(wire)
        /\ \A j \in 1..Sends(wire) :
               IF j <= BitWrites(ret.args[1])
               THEN SendAt(wire, j)
                        = BatchWriteFrame(
                              ret.args[1][NthBitWrite(ret.args[1], j)])
               ELSE /\ j = BitWrites(ret.args[1]) + 1
                    /\ SendAt(wire, j) = MainWriteFrame(ret.args[1])
                    /\ Len(SendAt(wire, j))
                           = RandomHeadFrameLen(RANDOM_WRITE, ret.args[1])
                             + Len(NonBitEntries(ret.args[1]))

\* C20, its case: a write of the BIT tag M8304 = 1 and the SWORD tag
\* D100 = 5 succeeded after a batch write and a main request; the main
\* request is the head, one device address and one value byte
C20_BitThenWord ==
    /\ ret.op = "write"
    /\ ret.res.ok
    /\ ret.args[1] = <<Tag(M8304, Text(<<"1">>), "BIT"),
                       Tag(D100, Text(<<"5">>), "SWORD")>>
    /\ Sends(wire) = 2
    /\ SendAt(wire, 1) = BatchWriteFrame(ret.args[1][1])
    /\ Len(SendAt(wire, 2))
           = RandomHeadFrameLen(RANDOM_WRITE, ret.args[1]) + EntryLen + 1

-----------------------------------------------------------------------------
(* Properties of the values of a random write (Spec) *)

\* the tags of a write of an unsigned type whose value text is a negative
\* integer
NegativeUnsignedTags(devices) ==
    {i \in 1..Len(devices) :
        /\ devices[i].data_type \in {"UWORD", "UDWORD"}
        /\ devices[i].value.some
        /\ parse_i64(devices[i].value.s).ok
        /\ parse_i64(devices[i].value.s).val < 0}

\* whether a frame ends with the given bytes
EndsWith(frame, bytes) ==
    /\ Len(frame) >= Len(bytes)
    /\ LastBytes(frame, Len(bytes)) = bytes

\* C21: a write of one UWORD or UDWORD tag whose value text is a negative
\* integer does not abort because of the value; on a connected session the
\* request is sent and ends with the encoding of that value.
C21_NegativeUnsignedWritten ==
    (ret.op = "write" /\ Len(ret.args[1]) = 1
                      /\ NegativeUnsignedTags(ret.args[1]) = {1})
    => /\ ret.res.kind # "panic"
       /\ is_connected =>
              /\ Sends(wire) = 1
              /\ EndsWith(LastSentFrame(wire),
                          encode_value(parse_i64(ret.args[1][1].value.s).val,
                                       ret.args[1][1].data_type, FALSE).val)

\* C21, a failing case: on a connected session the write of D100 = -1 as a
\* UWORD aborts before anything is sent: the value text after the sign step
\* is "--1", which does not parse
C21_DoubledSignAborts ==
    /\ ret.op = "write"
    /\ is_connected
    /\ ret.args[1] = <<Tag(D100, Text(<<"-", "1">>), "UWORD")>>
    /\ normalized(ret.args[1][1])
           = Ok(Some(as_bytes(<<"-", "-", "1">>)))
    /\ ~parse_i64(as_bytes(<<"-", "-", "1">>)).ok
    /\ ret.res.kind = "panic"
    /\ wire = <<>>

-----------------------------------------------------------------------------
(* Properties of device addresses (SpecDevice) *)

\* the classes the spec gives to the iQ-R series only
IQROnlyClasses ==
    {<<"L", "T", "S">>, <<"L", "T", "C">>, <<"L", "T", "N">>,
     <<"L", "S", "T", "S">>, <<"L", "S", "T", "C">>, <<"L", "S", "T", "N">>,
     <<"L", "C", "S">>, <<"L", "C", "C">>, <<"L", "C", "N">>,
     <<"L", "Z">>, <<"R", "D">>}

\* C22: in either table a class of the iQ-R series only resolves to a
\* device code when the series is iQ-R and fails to resolve for every other
\* series.
C22_IQROnlyClasses ==
    (/\ ret.op \in {"get_binary_device_code", "get_ascii_device_code"}
     /\ ret.args[2] \in IQROnlyClasses)
    => (ret.res.ok <=> ret.args[1] = IQR_SERIES)

\* C22, a failing case: the binary lookup of LTS for the series iQ-R
\* ("iQ-R", the value of consts::IQR_SERIES) returns an error
C22_LTSUnknownForIQR ==
    /\ ret.op = "get_binary_device_code"
    /\ ret.args = <<"iQ-R", <<"L", "T", "S">>>>
    /\ ret.args[1] = IQR_SERIES
    /\ ret.res = Err("failed to get binary device code")

\* the classes whose device numbers are written in base 16
Base16Classes ==
    {<<"X">>, <<"Y">>, <<"B">>, <<"W">>, <<"S", "B">>, <<"S", "W">>,
     <<"D", "X">>, <<"D", "Y">>, <<"Z", "R">>}

\* the number the digits of an index spell in the base of the class
NumberInBase(class, index) ==
    IF class \in Base16Classes THEN HexNumber(as_bytes(index))
    ELSE DecimalValue(index)

\* the low three bytes of a number, low byte first
LowThreeBytes(n) == <<n % 256, (n \div 256) % 256, (n \div 65536) % 256>>

\* C23: in binary encoding for a series other than iQ-R every device
\* reference that is accepted encodes to exactly 4 bytes: the low three
\* bytes, low byte first, of the device number, then the device-code byte
\* of the class; the device number is the digit string of the index read in
\* base 16 for X, Y, B, W, SB, SW, DX, DY and ZR and in base 10 for the
\* other classes.
C23_BinaryAddress ==
    (/\ ret.op = "build_device_data"
     /\ comm_type = COMMTYPE_BINARY
     /\ plc_type # IQR_SERIES
     /\ ret.res.ok)
    => /\ Len(ret.res.val) = 4
       /\ SubSeq(ret.res.val, 1, 3)
              = LowThreeBytes(NumberInBase(ret.args[1], ret.args[2]))
       /\ ret.res.val[4] = BinaryCodes[Str(ret.args[1])][1]

\* C23, its case: on a Q session in binary X10 encodes to 10 00 00 9C, the
\* device number 16
C23_X10IsSixteen ==
    /\ ret.op = "build_device_data"
    /\ comm_type = COMMTYPE_BINARY
    /\ plc_type = Q_SERIES
    /\ ret.args = <<<<"X">>, <<"1", "0">>>>
    /\ ret.res = Ok(<<16, 0, 0, 156>>)

\* the fixed width of the class string of an ASCII address
ClassWidth == IF plc_type = IQR_SERIES THEN 4 ELSE 2

\* the ASCII codes of the lowercase hexadecimal digits
LowerHexCodes == (48..57) \cup (97..102)

\* a class padded with '*' to the fixed width, as bytes
PaddedClass(class) ==
    as_bytes(class) \o [i \in 1..(ClassWidth - Len(class)) |-> 42]

\* the classes the ASCII table renames (STS, STC, STN)
RenamedClasses == {<<"S", "T", "S">>, <<"S", "T", "C">>, <<"S", "T", "N">>}

\* C24: in ASCII encoding every device reference that is accepted encodes
\* to the class string padded with '*' to its fixed width (2 characters, 4
\* for iQ-R) followed by exactly 6 lowercase hexadecimal digits, for every
\* index the parser accepts.
C24_AsciiAddress ==
    (/\ ret.op = "build_device_data"
     /\ comm_type = COMMTYPE_ASCII
     /\ ret.res.ok)
    => /\ Len(ret.res.val) = ClassWidth + 6
       /\ \A i \in (ClassWidth + 1)..Len(ret.res.val) :
              ret.res.val[i] \in LowerHexCodes
       /\ ret.args[1] \notin RenamedClasses =>
              SubSeq(ret.res.val, 1, ClassWidth) = PaddedClass(ret.args[1])

\* C24, a failing case: on a Q session in ASCII D1234567 encodes to D*
\* followed by the seven digits 1234567
C24_SevenHexDigits ==
    /\ ret.op = "build_device_data"
    /\ comm_type = COMMTYPE_ASCII
    /\ plc_type = Q_SERIES
    /\ ret.args = <<<<"D">>, <<"1", "2", "3", "4", "5", "6", "7">>>>
    /\ ret.res = Ok(as_bytes(<<"D", "*", "1", "2", "3", "4", "5", "6", "7">>))
    /\ Len(ret.res.val) = ClassWidth + 7

-----------------------------------------------------------------------------
(* Properties of the command field and of the ASCII frame (SpecFrame) *)

\* the command field of built command data: its first field
CommandField(command_data) == SubSeq(command_data, 1, SwordFieldLen)

\* C25: the command field identifies the command: the command data built
\* for any other of the four command codes, with the same subcommand, has a
\* different command field.
C25_CommandFieldDistinct ==
    ret.op = "build_command_data" =>
        /\ ret.res.ok
        /\ \A other \in Commands \ {ret.args[1]} :
               CommandField(build_command_data(other, ret.args[2]).val)
                   # CommandField(ret.res.val)

\* C25, a failing case: the command data of BATCH_READ (0x0401) with
\* subcommand 0 is 01 00, and that of BATCH_WRITE (0x1401) is the same
C25_ReadAndWriteAlike ==
    /\ ret.op = "build_command_data"
    /\ ret.args = <<BATCH_READ, ZERO>>
    /\ ret.res = Ok(<<1, 0>>)
    /\ build_command_data(BATCH_WRITE, ZERO) = ret.res

-----------------------------------------------------------------------------
(* Properties of device addresses, continued (SpecDevice) *)

\* C26: in binary encoding, for every series, the address of an accepted
\* reference differs from the address of every accepted reference with
\* another class and the same index.
C26_AddressTellsClass ==
    (/\ ret.op = "build_device_data"
     /\ comm_type = COMMTYPE_BINARY
     /\ ret.res.ok)
    => \A other \in ClassNames \ {ret.args[1]} :
           build_device_data(other \o ret.args[2]).ok =>
               build_device_data(other \o ret.args[2]).val # ret.res.val

\* C26, a failing case: on an iQ-R session in binary D100 encodes to
\* 64 00 00 00 00 00, and so does M100
C26_IQRAddressWithoutClass ==
    /\ ret.op = "build_device_data"
    /\ comm_type = COMMTYPE_BINARY
    /\ plc_type = IQR_SERIES
    /\ ret.args = <<<<"D">>, <<"1", "0", "0">>>>
    /\ ret.res = Ok(<<100, 0, 0, 0, 0, 0>>)
    /\ build_device_data(<<"M", "1", "0", "0">>) = ret.res

-----------------------------------------------------------------------------
(* Properties of the head of a random write (Spec) *)

\* whether the main request of a write was handed to the socket: every
\* batch write of a BIT tag went before it
MainRequestSent(devices, events) ==
    Sends(events) = BitWrites(devices) + 1

\* the word-count field of a random request sent as `frame`: the byte
\* before the last byte of the head
CountField(command, devices, frame) ==
    frame[RandomHeadFrameLen(command, devices) - 1]

\* the device-address entries the loop of write adds to the request: one
\* for each word of each tag that is not BIT
WriteEntryCount(devices) ==
    Cardinality({p \in (1..Len(devices)) \X (1..4) :
                    /\ devices[p[1]].data_type # "BIT"
                    /\ p[2] <= size(devices[p[1]].data_type) \div 2})

\* C27: in every main request of a write that is sent, the word-count
\* field equals the number of device-address entries that follow the head,
\* and the request is as long as the head and those entries with their
\* values.
C27_CountIsEntries ==
    (ret.op = "write" /\ MainRequestSent(ret.args[1], wire))
    => /\ CountField(RANDOM_WRITE, ret.args[1], LastSentFrame(wire))
              = WriteEntryCount(ret.args[1])
       /\ Len(LastSentFrame(wire))
              = RandomHeadFrameLen(RANDOM_WRITE, ret.args[1])
                + Len(NonBitEntries(ret.args[1]))

\* C27, a failing case: the write of the BIT tag M8304 = 1 and the SWORD
\* tag D100 = 5 succeeded; its main request says 2 words and carries one
\* device address with one value byte
C27_BitTagCounted ==
    /\ ret.op = "write"
    /\ ret.res.ok
    /\ ret.args[1] = <<Tag(M8304, Text(<<"1">>), "BIT"),
                       Tag(D100, Text(<<"5">>), "SWORD")>>
    /\ MainRequestSent(ret.args[1], wire)
    /\ CountField(RANDOM_WRITE, ret.args[1], LastSentFrame(wire)) = 2
    /\ WriteEntryCount(ret.args[1]) = 1
    /\ Len(LastSentFrame(wire))
           = RandomHeadFrameLen(RANDOM_WRITE, ret.args[1]) + EntryLen
             + Len(encode_value(5, "SWORD", FALSE).val)

-----------------------------------------------------------------------------
(* Properties of a random write with a tag that cannot be encoded (Spec) *)

\* a tag of a write that is not BIT and whose entries cannot be built:
\* its device token does not parse or its device class is unknown
Unencodable(tag) ==
    /\ tag.data_type # "BIT"
    /\ write_entries(tag).kind = "err"

\* a write that returned the error of a tag that cannot be encoded
RefusedForTag(devices, res) ==
    \E i \in 1..Len(devices) :
        /\ Unencodable(devices[i])
        /\ res = write_entries(devices[i])

\* C28: a write that returns the error of a tag that cannot be encoded has
\* sent no request, whatever tags precede the bad one.
C28_NothingSentOnBadTag ==
    (ret.op = "write" /\ RefusedForTag(ret.args[1], ret.res))
    => Sends(wire) = 0

\* C28, a failing case: the write of the BIT tag M8304 = 1 followed by a
\* SWORD tag with the device token "bad" returned the token's error after
\* the batch write of M8304 was sent and answered
C28_BitWrittenBeforeBadTag ==
    /\ ret.op = "write"
    /\ ret.args[1] = <<Tag(M8304, Text(<<"1">>), "BIT"),
                       Tag(BadToken, Text(<<"5">>), "SWORD")>>
    /\ ret.res = write_entries(ret.args[1][2])
    /\ ret.res.kind = "err"
    /\ Len(wire) = 2
    /\ wire[1].dir = "send"
    /\ wire[1].ok
    /\ wire[1].data = BatchWriteFrame(ret.args[1][1])
    /\ wire[2].dir = "recv"
    /\ wire[2].ok

-----------------------------------------------------------------------------
(* Properties of the tags a batch read returns (Spec) *)

\* the device at which the data of element k (0-based) of a batch read of
\* a type of `data_type_size` bytes starts: each element takes
\* data_type_size / 2 device indices
ElementDevice(ref_device, data_type_size, k) ==
    format_device(get_device_type(ref_device).val,
                  get_device_index(ref_device).val
                      + k * (data_type_size \div 2))

\* C29: a batch read of a type that is not BIT that succeeds returns one
\* tag for each element, and tag k (0-based) is named with the device at
\* which its data starts, index + k * (width / 2).
C29_TagsNamedByDataStart ==
    (/\ ret.op = "batch_read"
     /\ ret.res.ok
     /\ ret.args[3] # "BIT")
    => /\ Len(ret.res.val) = ret.args[2]
       /\ \A k \in 1..ret.args[2] :
              ret.res.val[k].device
                  = ElementDevice(ret.args[1], size(ret.args[3]), k - 1)

\* C29, a failing case: a decoded batch read of two UDWORD elements from
\* D100 asked for the four words D100..D103 and returned the second
\* element, read from D102, as D101
C29_SecondDoubleWordMisnamed ==
    /\ ret.op = "batch_read"
    /\ ret.res.ok
    /\ ret.args = <<D100, 2, "UDWORD", TRUE>>
    /\ Len(ret.res.val) = 2
    /\ ret.res.val[1].device = D100
    /\ ret.res.val[2].device = <<"D", "1", "0", "1">>
    /\ ElementDevice(D100, size("UDWORD"), 1) = <<"D", "1", "0", "2">>
    /\ batch_read_request(D100, 2, "UDWORD")
           = Collect(<<build_command_data(BATCH_READ,
                                          batch_subcommand("UDWORD")),
                       build_device_data(D100),
                       encode_value(4, "SWORD", FALSE)>>)

-----------------------------------------------------------------------------
(* Properties of the bytes of an ASCII frame (SpecFrame) *)

\* a byte that is printable ASCII text
Printable(byte) == byte \in 32..126

\* the part of a frame that build_send_data puts before request_data
HeaderOf(frame, request_data) ==
    SubSeq(frame, 1, Len(frame) - Len(request_data))

\* C30: in ASCII encoding every byte build_send_data puts before the
\* request data (subheader, serial, routing fields, body length, timer) and
\* every byte of the command data (command, subcommand) is printable ASCII
\* text.
C30_AsciiFrameIsText ==
    comm_type = COMMTYPE_ASCII =>
        /\ ret.op = "build_send_data" =>
               /\ ret.res.ok
               /\ \A i \in 1..Len(HeaderOf(ret.res.val, ret.args[1])) :
                      Printable(ret.res.val[i])
        /\ ret.op = "build_command_data" =>
               /\ ret.res.ok
               /\ \A i \in 1..Len(ret.res.val) : Printable(ret.res.val[i])

\* C30, a failing case: the ASCII frame of the empty request data starts
\* with the subheader as four hexadecimal digits and goes on with raw
\* bytes, the pc field being the one byte ff
C30_RawBytesInAsciiHeader ==
    /\ comm_type = COMMTYPE_ASCII
    /\ ret.op = "build_send_data"
    /\ ret.args[1] = <<>>
    /\ ret.res.ok
    /\ SubSeq(ret.res.val, 1, 4) = FormatX04(get_subheader)
    /\ \A i \in 1..4 : Printable(ret.res.val[i])
    /\ encode_value(pc, "BIT", FALSE) = Ok(<<255>>)
    /\ \E i \in 5..Len(ret.res.val) : ret.res.val[i] = 255
    /\ \E i \in 5..Len(ret.res.val) : ret.res.val[i] = 0

=============================================================================
